---- MODULE Spec2Model ----
(***************************************************************************)
(* A model of the assessment session engine of neuro-assessment-app: the   *)
(* landmark metric extractors and the tap statistics (utils), and the     *)
(* React components that drive a timed session from the per-frame          *)
(* detector loop (EyeTrackingTest, FingerTapTest and their drafts).        *)
(*                                                                         *)
(* Numbers.  JavaScript numbers are modelled by integers.  Times are       *)
(* milliseconds.  The outputs of analyzeTapData, which the code rounds     *)
(* with toFixed(2), are integers counting hundredths.  Landmark            *)
(* coordinates are thousandths of the normalised [0,1] range.              *)
(***************************************************************************)
EXTENDS Integers, Sequences, FiniteSets, TLC

VARIABLES
    \* A call of a utility function.
    pc,     \* position of the caller: "call", "done" ("idle": no call)
    arg,    \* the argument the function is called with
    ret,    \* the value it returned (Null before the call)
    \* The React state of the test component (useState).
    isWebcamEnabled,
    isTestRunning,
    timeLeft,
    history,            \* gazeHistory / tapTimestamps
    testResults,
    chartData,
    wasTapped,
    targetPosition,
    \* Its refs (useRef).  A timer ref is "null" (never assigned), "armed"
    \* (the timer it names is pending) or "stale" (the id of a timer that has
    \* fired or was cleared).
    requestRef,         \* NoRequest, or the frame-loop chain it was last given
    testTimeoutRef,     \* "null", "stale" or "armed"
    targetAnimationRef, \* "null", "stale" or "armed"
    \* The host: React, the browser and the camera.
    component,          \* the component that is mounted, or "none"
    mounted,            \* the component is mounted (videoRef/canvasRef set)
    landmarker,         \* useMediaPipe: "loading", "ready" or "failed"
    gum,                \* pending getUserMedia promises: the closure awaiting each
    srcObject,          \* a stream is attached to the video element
    liveStreams,        \* streams getUserMedia gave whose tracks are not stopped
    loadedHandler,      \* the closure in video.onloadeddata (or the closures of
                        \* the loadeddata listeners), or Null
    loadedPending,      \* number of loadeddata events not yet delivered
    frames,             \* scheduled predictWebcam callbacks: [chain, cap]
    targetFrame,        \* an animateTarget callback is scheduled
    orphanTimeouts,     \* pending auto-stop timeouts testTimeoutRef no longer names
    zeroEffect,         \* the countdown effect that saw timeLeft 0 is pending
    now,                \* the clock (performance.now)
    clicks,             \* Enable Webcam clicks taken so far
    \* The state only the draft with the instructions card has (part_004).
    instructionsVisible,
    stopClosure,        \* gazeHistory in the handleStopTest given to setTimeout
    \* Observation (not program state).
    op,                 \* what the last step did
    runLen,             \* frames of the current run of below-threshold frames
    runTaps             \* taps appended during that run

pureVars == <<pc, arg, ret>>
stateVars == <<isWebcamEnabled, isTestRunning, timeLeft, history, testResults,
               chartData, wasTapped, targetPosition>>
refVars == <<requestRef, testTimeoutRef, targetAnimationRef>>
hostVars == <<component, mounted, landmarker, gum, srcObject, loadedHandler,
              loadedPending, frames, targetFrame, orphanTimeouts, zeroEffect, now, clicks>>
draftVars == <<instructionsVisible, stopClosure>>
cameraVars == <<liveStreams>>
obsVars == <<op, runLen, runTaps>>
sessionVars == <<stateVars, refVars, hostVars, draftVars, cameraVars, obsVars>>
vars == <<pureVars, sessionVars>>

\* JavaScript null / undefined.
Null == [null |-> TRUE]

(***************************************************************************)
(* Bounds of the model.                                                    *)
(***************************************************************************)
\* Longest timestamp array handed to analyzeTapData.
MaxTaps == 4
\* Number of face poses the landmark sets are drawn from.
MaxPoses == 2
\* The timestamps the arrays are built from (ms); they hold both worked
\* examples of the specification, [0,500,1000,1500] and [0,400,1100].
TapTimes == {0, 400, 500, 1000, 1100, 1500}

(***************************************************************************)
(* The initial values of the component: the useState and useRef            *)
(* initialisers, and a host in which nothing is scheduled.                 *)
(***************************************************************************)
\* The components modelled: the timed finger-tap test, the timed eye-tracking
\* test, the eye-tracking test with Start and Stop buttons, the eye-tracking
\* draft with the instructions card and the finger-tap draft with Start and
\* Stop buttons.
Components ==
    {"FingerTapTest", "EyeTrackingTest (timed)", "EyeTrackingTest",
     "EyeTrackingTest (instructions)", "FingerTapTest (buttons)"}

\* requestRef.current before any requestAnimationFrame: null.
NoRequest == 0

InitialTarget == [x |-> 500, y |-> 500]

InitialSession ==
    /\ component \in {"none"} \cup Components
    /\ isWebcamEnabled = FALSE
    /\ isTestRunning = FALSE
    /\ timeLeft = 0
    /\ history = <<>>
    /\ testResults = Null
    /\ chartData = Null
    /\ wasTapped = FALSE
    /\ targetPosition = InitialTarget
    /\ requestRef = NoRequest
    /\ testTimeoutRef = "null"
    /\ targetAnimationRef = "null"
    /\ landmarker = "loading"
    /\ gum = <<>>
    /\ srcObject = FALSE
    /\ liveStreams = 0
    /\ loadedHandler = Null
    /\ loadedPending = 0
    /\ frames = {}
    /\ targetFrame = FALSE
    /\ orphanTimeouts = 0
    /\ zeroEffect = FALSE
    /\ now = 0
    /\ clicks = 0
    /\ instructionsVisible = TRUE
    /\ stopClosure = Null
    /\ op = "init"
    /\ runLen = 0
    /\ runTaps = 0

\* No component is mounted: a utility function is called on its own.
NoSession == InitialSession /\ component = "none" /\ mounted = FALSE

\* A component has just been mounted; no utility call is being observed.
Mounted(c) ==
    /\ InitialSession
    /\ component = c
    /\ mounted = TRUE
    /\ pc = "idle"
    /\ arg = Null
    /\ ret = Null

(***************************************************************************)
(* Arithmetic helpers.                                                     *)
(***************************************************************************)
Abs(a) == IF a < 0 THEN -a ELSE a

\* Number.prototype.toFixed rounds the magnitude to the nearest value,
\* taking the larger on a tie, and keeps the sign.  RoundDiv(a, b) is a / b
\* rounded that way to an integer, for b > 0.
RoundDiv(a, b) ==
    IF a >= 0 THEN (2 * a + b) \div (2 * b)
              ELSE -((2 * (-a) + b) \div (2 * b))

RECURSIVE SumSeq(_)
SumSeq(s) == IF s = <<>> THEN 0 ELSE Head(s) + SumSeq(Tail(s))

\* Math.sqrt, as the largest integer whose square is at most n, found by
\* bisection between lo and hi (lo * lo <= n < hi * hi).
RECURSIVE SqrtBetween(_, _, _)
SqrtBetween(n, lo, hi) ==
    IF hi - lo <= 1 THEN lo
    ELSE LET mid == (lo + hi) \div 2
         IN  IF mid * mid <= n THEN SqrtBetween(n, mid, hi)
                               ELSE SqrtBetween(n, lo, mid)

\* 46340 is the largest integer whose square fits 32 bits.
ISqrt(n) == SqrtBetween(n, 0, 46340)

\* The two decimals after the integer part of a square root: the largest t
\* in lo..hi-1 with (200 * s + t)^2 <= 40000 * n, where s = ISqrt(n).
RECURSIVE FracBetween(_, _, _, _)
FracBetween(n, s, lo, hi) ==
    IF hi - lo <= 1 THEN lo
    ELSE LET mid == (lo + hi) \div 2
         IN  IF 400 * s * mid + mid * mid <= 40000 * (n - s * s)
             THEN FracBetween(n, s, mid, hi)
             ELSE FracBetween(n, s, lo, mid)

\* floor(200 * sqrt(n)).
Floor200Sqrt(n) == LET s == ISqrt(n) IN 200 * s + FracBetween(n, s, 0, 200)

\* parseFloat(Math.sqrt(num / (den * den)).toFixed(2)), in hundredths:
\* 100 * sqrt(num) / den rounded to the nearest integer, ties upwards.
SqrtToFixed2(num, den) == (Floor200Sqrt(num) + den) \div (2 * den)

(***************************************************************************)
(* utils/testCalculations: analyzeTapData.                                 *)
(***************************************************************************)
\* A finite number of hundredths, and the result of a division by zero.
Finite(h) == [kind |-> "finite", hund |-> h]
Infinity == [kind |-> "Infinity", hund |-> 0]

\* intervals.push(timestamps[i] - timestamps[i - 1]) for i = 1 .. length-1
Intervals(timestamps) ==
    [i \in 1..(Len(timestamps) - 1) |-> timestamps[i + 1] - timestamps[i]]

\* A slip: the duration counted from the time origin, last / 1000.
TapsPerSecondSinceOrigin(totalTaps, first, last) ==
    IF last = 0 THEN Infinity
    ELSE IF last > 0
         THEN Finite(RoundDiv(100000 * totalTaps, last))
         ELSE Finite(-RoundDiv(100000 * totalTaps, -last))

\* totalTaps / duration, then parseFloat(x.toFixed(2)); duration is
\* (last - first) / 1000, and a division of a positive count by 0 is Infinity.
TapsPerSecond(totalTaps, first, last) ==
    IF last = first THEN Infinity
    ELSE IF last > first
         THEN Finite(RoundDiv(100000 * totalTaps, last - first))
         ELSE Finite(-RoundDiv(100000 * totalTaps, first - last))

\* A slip: the sum of the intervals divided by the number of taps.
AverageOverTaps(intervals) ==
    RoundDiv(100 * SumSeq(intervals), Len(intervals) + 1)

\* intervals.reduce(sum) / intervals.length, then toFixed(2).
AverageTimeBetweenTaps(intervals) ==
    RoundDiv(100 * SumSeq(intervals), Len(intervals))

\* With k intervals of sum S the mean is S / k, and a squared difference
\* (interval - mean)^2 is (k * interval - S)^2 / k^2.  The numerators sum to
\* W, so avgSquaredDiff is W / k^3 = (W * k) / (k^2)^2; then Math.sqrt and
\* toFixed(2).
Consistency(intervals) ==
    LET k == Len(intervals)
        S == SumSeq(intervals)
        squaredDifferences ==
            [i \in 1..k |-> (k * intervals[i] - S) * (k * intervals[i] - S)]
        W == SumSeq(squaredDifferences)
    IN  SqrtToFixed2(W * k, k * k)

\* A slip: the guard written timestamps.length < 1, so that one tap is
\* divided by a zero duration (its 0 / 0 mean, NaN, is shown as 0).
analyzeTapDataGuardOne(timestamps) ==
    IF Len(timestamps) < 1
    THEN [totalTaps |-> 0, tapsPerSecond |-> Finite(0),
          averageTimeBetweenTaps |-> 0, consistency |-> 0]
    ELSE IF Len(timestamps) = 1
    THEN [totalTaps |-> 1, tapsPerSecond |-> Infinity,
          averageTimeBetweenTaps |-> 0, consistency |-> 0]
    ELSE [totalTaps |-> Len(timestamps),
          tapsPerSecond |->
              TapsPerSecond(Len(timestamps), timestamps[1],
                            timestamps[Len(timestamps)]),
          averageTimeBetweenTaps |-> AverageTimeBetweenTaps(Intervals(timestamps)),
          consistency |-> Consistency(Intervals(timestamps))]

analyzeTapData(timestamps) ==
    IF Len(timestamps) < 2
    THEN [totalTaps |-> Len(timestamps), tapsPerSecond |-> Finite(0),
          averageTimeBetweenTaps |-> 0, consistency |-> 0]
    ELSE LET totalTaps == Len(timestamps)
             intervals == Intervals(timestamps)
         IN  [totalTaps |-> totalTaps,
              tapsPerSecond |->
                  TapsPerSecond(totalTaps, timestamps[1], timestamps[totalTaps]),
              averageTimeBetweenTaps |-> AverageTimeBetweenTaps(intervals),
              consistency |-> Consistency(intervals)]

(***************************************************************************)
(* SpecAnalyze: analyzeTapData applied once to every timestamp array of    *)
(* at most MaxTaps entries drawn from TapTimes.                            *)
(***************************************************************************)
TimestampArrays == UNION {[1..n -> TapTimes] : n \in 0..MaxTaps}

InitAnalyze ==
    /\ pc = "call"
    /\ arg \in TimestampArrays
    /\ ret = Null
    /\ NoSession

CallAnalyze ==
    /\ pc = "call"
    /\ ret' = analyzeTapData(arg)
    /\ pc' = "done"
    /\ UNCHANGED <<arg, sessionVars>>

NextAnalyze == CallAnalyze

SpecAnalyze == InitAnalyze /\ [][NextAnalyze]_vars

(***************************************************************************)
(* utils/testCalculations: calculateGazePosition.                          *)
(*                                                                         *)
(* A landmark array is a function from the indices it holds to points;     *)
(* landmarks[index] of an index it does not hold is undefined.             *)
(***************************************************************************)
LEFT_IRIS_INDICES == <<473, 474, 475, 476, 477>>
RIGHT_IRIS_INDICES == <<468, 469, 470, 471, 472>>

\* const points = indices.map(index => landmarks[index]);
\* if (points.some(p => !p)) return null;
\* return { x: sumX / indices.length, y: sumY / indices.length };
getCenterPoint(landmarks, indices) ==
    IF \E i \in 1..Len(indices) : indices[i] \notin DOMAIN landmarks
    THEN Null
    ELSE [x |-> SumSeq([i \in 1..Len(indices) |-> landmarks[indices[i]].x])
                    \div Len(indices),
          y |-> SumSeq([i \in 1..Len(indices) |-> landmarks[indices[i]].y])
                    \div Len(indices)]

\* A slip: the gaze falls back on the left eye when the right one is missing.
calculateGazePositionOneEye(landmarks) ==
    LET leftIrisCenter == getCenterPoint(landmarks, LEFT_IRIS_INDICES)
        rightIrisCenter == getCenterPoint(landmarks, RIGHT_IRIS_INDICES)
    IN  [left |-> leftIrisCenter, right |-> rightIrisCenter,
         average |->
            IF leftIrisCenter # Null /\ rightIrisCenter # Null
            THEN [x |-> (leftIrisCenter.x + rightIrisCenter.x) \div 2,
                  y |-> (leftIrisCenter.y + rightIrisCenter.y) \div 2]
            ELSE leftIrisCenter]

calculateGazePosition(landmarks) ==
    LET leftIrisCenter == getCenterPoint(landmarks, LEFT_IRIS_INDICES)
        rightIrisCenter == getCenterPoint(landmarks, RIGHT_IRIS_INDICES)
    IN  [left |-> leftIrisCenter, right |-> rightIrisCenter,
         average |->
            IF leftIrisCenter # Null /\ rightIrisCenter # Null
            THEN [x |-> (leftIrisCenter.x + rightIrisCenter.x) \div 2,
                  y |-> (leftIrisCenter.y + rightIrisCenter.y) \div 2]
            ELSE Null]

(***************************************************************************)
(* SpecGaze: calculateGazePosition applied once to every landmark set that *)
(* holds some of the ten iris landmarks, in each of MaxPoses face poses.   *)
(* The coordinates are multiples of 10 thousandths, so that the divisions  *)
(* by 5 and by 2 are exact.                                                *)
(***************************************************************************)
IrisIndices == 468..477

LandmarkAt(index, pose) ==
    [x |-> 10 * (40 + (IF index >= 473 THEN 12 ELSE 0) + ((index * pose) % 5)),
     y |-> 10 * (45 + ((index + pose) % 3))]

LandmarkSets ==
    {[index \in present |-> LandmarkAt(index, pose)] :
        present \in SUBSET IrisIndices, pose \in 1..MaxPoses}

InitGaze ==
    /\ pc = "call"
    /\ arg \in LandmarkSets
    /\ ret = Null
    /\ NoSession

CallGaze ==
    /\ pc = "call"
    /\ ret' = calculateGazePosition(arg)
    /\ pc' = "done"
    /\ UNCHANGED <<arg, sessionVars>>

NextGaze == CallGaze

SpecGaze == InitGaze /\ [][NextGaze]_vars

(***************************************************************************)
(* What the components share.                                              *)
(***************************************************************************)
\* Longest session history (an append beyond it is not taken).
MaxHistory == 3
\* Last value of the clock.
MaxNow == 2
\* Enable Webcam clicks taken.
MaxEnableClicks == 2
\* Frames counted in a run of below-threshold frames.
MaxRun == 3

TEST_DURATION == 10000

\* The values of the render whose closures a callback was created in:
\* useCallback([landmarker, isTestRunning, ...]) memoises predictWebcam per
\* render, and requestAnimationFrame(predictWebcam) inside it names that same
\* memoised function, so a scheduled callback keeps reading these values.
Closure ==
    [isTestRunning |-> isTestRunning, wasTapped |-> wasTapped,
     targetPosition |-> targetPosition]

\* The chains of predictWebcam callbacks that are scheduled, and a name for
\* a new one.
Chains == {f.chain : f \in frames}
NewChain ==
    CHOOSE c \in 1..(Cardinality(frames) + requestRef + 1) :
        c > requestRef /\ \A d \in Chains : c > d

\* requestRef.current = requestAnimationFrame(predictWebcam) by a caller
\* whose closure is cap: a new chain starts.
ScheduledFrames(cap) == frames \cup {[chain |-> NewChain, cap |-> cap]}

\* cancelAnimationFrame(requestRef.current), under if (requestRef.current):
\* the ref keeps the handle of the request that is gone.
CancelledFrames == {f \in frames : f.chain # requestRef}
\* clearTimeout(ref.current), under if (ref.current), for a timer ref.
AfterCancel(ref) == IF ref = "null" THEN "null" ELSE "stale"

\* Math.hypot, rounded down to a thousandth.
Hypot(dx, dy) == ISqrt(dx * dx + dy * dy)

\* useMediaPipe: the model is created, or its creation fails.
LandmarkerLoads ==
    /\ mounted
    /\ landmarker = "loading"
    /\ landmarker' \in {"ready", "failed"}
    /\ op' = "landmarker"
    /\ UNCHANGED <<pureVars, draftVars, cameraVars, component, stateVars,
                   refVars, mounted, gum, srcObject,
                   loadedHandler, loadedPending, frames, targetFrame,
                   orphanTimeouts, zeroEffect, now, clicks, runLen, runTaps>>

\* The observations of a frame callback that ran the detector, and of any
\* frame callback.
DetectionOps == {"frame:empty", "frame:notip", "frame:detect", "frame:append"}
FrameOps == DetectionOps \cup {"frame:unready", "frame:novideo"}

\* detectForVideo throws in the callback f of a chain: nothing catches it, so
\* the callback ends there, before its requestAnimationFrame.
DetectorThrows(f) ==
    /\ mounted /\ srcObject
    /\ frames' = frames \ {f}
    /\ op' = "frame:throws"
    /\ UNCHANGED <<pureVars, draftVars, cameraVars, component, stateVars,
                   refVars, mounted, landmarker, gum, srcObject, loadedHandler,
                   loadedPending, targetFrame, orphanTimeouts, zeroEffect,
                   now, clicks, runLen, runTaps>>

\* Time passes.
ClockTick ==
    /\ mounted
    /\ now < MaxNow
    /\ now' = now + 1
    /\ op' = "clock"
    /\ UNCHANGED <<pureVars, draftVars, cameraVars, component, stateVars,
                   refVars, mounted, landmarker, gum,
                   srcObject, loadedHandler, loadedPending, frames, targetFrame,
                   orphanTimeouts, zeroEffect, clicks, runLen, runTaps>>

(***************************************************************************)
(* FingerTapTest, the timed proximity draft (FingerTapTest.tsx 281-482).   *)
(***************************************************************************)
TAP_THRESHOLD == 50

\* A hand of the detector result: its number of landmarks and the two tips
\* the test reads (landmarks[4], landmarks[8]).
Hand(length, thumbTip, indexTip) ==
    [length |-> length, thumbTip |-> thumbTip, indexTip |-> indexTip]
ShortHand == Hand(5, [x |-> 500, y |-> 500], Null)
NearHand == Hand(21, [x |-> 500, y |-> 500], [x |-> 515, y |-> 520])
EdgeHand == Hand(21, [x |-> 500, y |-> 500], [x |-> 530, y |-> 540])
FarHand == Hand(21, [x |-> 500, y |-> 500], [x |-> 560, y |-> 580])
\* results.landmarks of one frame: no hand, or one hand.
HandResults == {<<>>, <<ShortHand>>, <<NearHand>>, <<EdgeHand>>, <<FarHand>>}

\* A distance (thousandths), as opposed to null.
Distance(d) == [value |-> d]

calculateFingerTapDistance(landmarks) ==
    IF landmarks = Null \/ landmarks.length < 9
    THEN Null
    ELSE Distance(Hypot(landmarks.thumbTip.x - landmarks.indexTip.x,
                        landmarks.thumbTip.y - landmarks.indexTip.y))

\* The frame is one of a run of frames with the fingers together.
IsNear(results) ==
    /\ Len(results) > 0
    /\ calculateFingerTapDistance(results[1]) # Null
    /\ calculateFingerTapDistance(results[1]).value < TAP_THRESHOLD

\* The detection reading the running flag of the latest render and the
\* tapped flag of its own.
Tap_DetectionLiveRunning(cap, results) ==
    IF isTestRunning /\ Len(results) > 0
    THEN LET distance == calculateFingerTapDistance(results[1])
         IN  IF distance = Null THEN "none"
             ELSE IF distance.value < TAP_THRESHOLD
                  THEN (IF ~cap.wasTapped THEN "tap" ELSE "none")
                  ELSE "release"
    ELSE "none"

\* A detection that does not look at isTestRunning.
Tap_DetectionAlways(cap, results) ==
    IF Len(results) > 0
    THEN LET distance == calculateFingerTapDistance(results[1])
         IN  IF distance = Null THEN "none"
             ELSE IF distance.value < TAP_THRESHOLD
                  THEN (IF ~cap.wasTapped THEN "tap" ELSE "none")
                  ELSE "release"
    ELSE "none"

\* A detection without the test for a null distance: null < TAP_THRESHOLD
\* is true.
Tap_DetectionNullIsNear(cap, results) ==
    IF cap.isTestRunning /\ Len(results) > 0
    THEN LET distance == calculateFingerTapDistance(results[1])
         IN  IF distance = Null \/ distance.value < TAP_THRESHOLD
             THEN (IF ~cap.wasTapped THEN "tap" ELSE "none")
             ELSE "release"
    ELSE "none"

\* A detection that takes a frame without a hand for fingers apart.
Tap_DetectionReleaseWithoutHand(cap, results) ==
    IF cap.isTestRunning
    THEN IF Len(results) > 0
         THEN LET distance == calculateFingerTapDistance(results[1])
              IN  IF distance = Null THEN "none"
                  ELSE IF distance.value < TAP_THRESHOLD
                       THEN (IF ~cap.wasTapped THEN "tap" ELSE "none")
                       ELSE "release"
         ELSE "release"
    ELSE "none"

\* What predictWebcam does with a detector result, in a closure cap:
\* "tap" (append a timestamp, setWasTapped(true)), "release"
\* (setWasTapped(false)) or "none".
Tap_Detection(cap, results) ==
    IF cap.isTestRunning /\ Len(results) > 0
    THEN LET distance == calculateFingerTapDistance(results[1])
         IN  IF distance = Null THEN "none"
             ELSE IF distance.value < TAP_THRESHOLD
                  THEN (IF ~cap.wasTapped THEN "tap" ELSE "none")
                  ELSE "release"
    ELSE "none"

\* The run of below-threshold frames of the running session, as observed.
ObserveRun(results, tapped) ==
    IF isTestRunning
    THEN IF IsNear(results)
         THEN /\ runLen' = (IF runLen < MaxRun THEN runLen + 1 ELSE runLen)
              /\ runTaps' = (IF tapped /\ runTaps < 2 THEN runTaps + 1 ELSE runTaps)
         ELSE runLen' = 0 /\ runTaps' = 0
    ELSE UNCHANGED <<runLen, runTaps>>

\* What a frame that reached the detector did, as observed: the detector
\* returned no hand ("frame:empty"), the hand lacks a fingertip landmark
\* ("frame:notip"), a tap was appended, or neither.
Tap_FrameOp(did, results) ==
    IF Len(results) = 0 THEN "frame:empty"
    ELSE IF calculateFingerTapDistance(results[1]) = Null THEN "frame:notip"
    ELSE IF did = "tap" THEN "frame:append"
    ELSE "frame:detect"

\* predictWebcam, the callback f of a chain, with the video element ready
\* (readyState >= 2) or not and the detector returning results.
Tap_predictWebcam(f, ready, results) ==
    IF ~mounted \/ ~srcObject
    THEN \* a ref or the stream is missing: keep trying if a loop was started
         /\ frames' = (IF requestRef # NoRequest THEN frames ELSE frames \ {f})
         /\ requestRef' = (IF requestRef # NoRequest THEN f.chain ELSE NoRequest)
         /\ op' = "frame:unready"
         /\ UNCHANGED <<history, wasTapped, runLen, runTaps>>
    ELSE /\ requestRef' = f.chain
         /\ frames' = frames
         /\ IF ~ready
            THEN /\ op' = "frame:novideo"
                 /\ UNCHANGED <<history, wasTapped, runLen, runTaps>>
            ELSE LET did == Tap_Detection(f.cap, results)
                 IN  /\ history' = (IF did = "tap" THEN Append(history, now)
                                                   ELSE history)
                     /\ wasTapped' = (IF did = "tap" THEN TRUE
                                      ELSE IF did = "release" THEN FALSE
                                      ELSE wasTapped)
                     /\ op' = Tap_FrameOp(did, results)
                     /\ ObserveRun(results, did = "tap")

Tap_Frame ==
    \E f \in frames, ready \in BOOLEAN, results \in HandResults :
        /\ component = "FingerTapTest"
        /\ Len(history) < MaxHistory
        /\ Tap_predictWebcam(f, ready, results)
        /\ UNCHANGED <<pureVars, draftVars, cameraVars, component,
                       isWebcamEnabled, isTestRunning, timeLeft,
                       testResults, chartData, targetPosition, testTimeoutRef,
                       targetAnimationRef, mounted, landmarker, gum, srcObject,
                       loadedHandler, loadedPending, targetFrame,
                       orphanTimeouts, zeroEffect, now, clicks>>

\* predictWebcam, the callback f of a chain, when detectForVideo throws.
Tap_FrameThrows ==
    \E f \in frames :
        /\ component = "FingerTapTest"
        /\ DetectorThrows(f)

\* The results and the chart handleStopTest computes from the timestamps.
Tap_Results(currentTimestamps) ==
    IF Len(currentTimestamps) > 1
    THEN analyzeTapData(currentTimestamps)
    ELSE [totalTaps |-> Len(currentTimestamps), tapsPerSecond |-> Finite(0),
          averageTimeBetweenTaps |-> 0, consistency |-> 0]

Tap_ChartData(currentTimestamps) ==
    IF Len(currentTimestamps) > 1
    THEN [data |-> Intervals(currentTimestamps)]
    ELSE Null

\* A handleStopTest without setTimeLeft(0).
Tap_handleStopTestKeepsTime ==
    /\ testTimeoutRef' = AfterCancel(testTimeoutRef)
    /\ IF mounted
       THEN /\ isTestRunning' = FALSE
            /\ timeLeft' = timeLeft
            /\ testResults' = Tap_Results(history)
            /\ chartData' = Tap_ChartData(history)
       ELSE UNCHANGED <<isTestRunning, timeLeft, testResults, chartData>>
    /\ runLen' = 0
    /\ runTaps' = 0
    /\ UNCHANGED <<pureVars, draftVars, cameraVars, component, isWebcamEnabled,
                   history, wasTapped,
                   targetPosition, requestRef, targetAnimationRef, mounted,
                   landmarker, gum, srcObject, loadedHandler, loadedPending,
                   frames, targetFrame, now, clicks>>

\* handleStopTest.  The state setters of an unmounted component do nothing.
Tap_handleStopTest ==
    /\ testTimeoutRef' = AfterCancel(testTimeoutRef)
    /\ IF mounted
       THEN /\ isTestRunning' = FALSE
            /\ timeLeft' = 0
            /\ testResults' = Tap_Results(history)
            /\ chartData' = Tap_ChartData(history)
       ELSE UNCHANGED <<isTestRunning, timeLeft, testResults, chartData>>
    /\ runLen' = 0
    /\ runTaps' = 0
    /\ UNCHANGED <<pureVars, draftVars, cameraVars, component, isWebcamEnabled,
                   history, wasTapped,
                   targetPosition, requestRef, targetAnimationRef, mounted,
                   landmarker, gum, srcObject, loadedHandler, loadedPending,
                   frames, targetFrame, now, clicks>>

\* A Start button that stays in the document while the test runs.
Tap_StartButtonWhileRunning == mounted /\ isWebcamEnabled /\ ~zeroEffect

\* The Start button is in the document: isWebcamEnabled && !isTestRunning,
\* in a render that follows the flush of the pending effects.
Tap_StartButton == mounted /\ isWebcamEnabled /\ ~isTestRunning /\ ~zeroEffect

\* A handleStartTest without setTestResults(null).
Tap_handleStartTestKeepsResults ==
    /\ history' = <<>>
    /\ chartData' = Null
    /\ wasTapped' = FALSE
    /\ isTestRunning' = TRUE
    /\ timeLeft' = TEST_DURATION \div 1000
    /\ testTimeoutRef' = "armed"
    /\ orphanTimeouts' =
           (IF testTimeoutRef = "armed" THEN orphanTimeouts + 1 ELSE orphanTimeouts)
    /\ runLen' = 0
    /\ runTaps' = 0
    /\ op' = "start"
    /\ UNCHANGED <<pureVars, draftVars, cameraVars, component, isWebcamEnabled,
                   testResults,
                   targetPosition, requestRef,
                   targetAnimationRef, mounted, landmarker, gum, srcObject,
                   loadedHandler, loadedPending, frames, targetFrame,
                   zeroEffect, now, clicks>>

\* handleStartTest.
Tap_handleStartTest ==
    /\ history' = <<>>
    /\ testResults' = Null
    /\ chartData' = Null
    /\ wasTapped' = FALSE
    /\ isTestRunning' = TRUE
    /\ timeLeft' = TEST_DURATION \div 1000
    /\ testTimeoutRef' = "armed"
    /\ orphanTimeouts' =
           (IF testTimeoutRef = "armed" THEN orphanTimeouts + 1 ELSE orphanTimeouts)
    /\ runLen' = 0
    /\ runTaps' = 0
    /\ op' = "start"
    /\ UNCHANGED <<pureVars, draftVars, cameraVars, component, isWebcamEnabled,
                   targetPosition, requestRef,
                   targetAnimationRef, mounted, landmarker, gum, srcObject,
                   loadedHandler, loadedPending, frames, targetFrame,
                   zeroEffect, now, clicks>>

\* The user goes for the Start control: handleStartTest runs if the button
\* is there, and nothing happens if it is not.
Tap_StartClick ==
    /\ component = "FingerTapTest"
    /\ mounted
    /\ IF Tap_StartButton
       THEN Tap_handleStartTest
       ELSE /\ op' = "start:rejected"
            /\ UNCHANGED <<pureVars, draftVars, cameraVars, component,
                           stateVars, refVars, hostVars,
                           runLen, runTaps>>

\* The Enable Webcam button (shown while !isWebcamEnabled, disabled while
\* the model loads): enableWebcam up to its await.
Tap_EnableClick ==
    /\ component = "FingerTapTest"
    /\ mounted /\ ~isWebcamEnabled /\ landmarker # "loading"
    /\ clicks < MaxEnableClicks
    /\ clicks' = clicks + 1
    /\ gum' = (IF landmarker = "ready" THEN Append(gum, Closure) ELSE gum)
    /\ op' = "enable"
    /\ UNCHANGED <<pureVars, draftVars, cameraVars, component, stateVars,
                   refVars, mounted, landmarker, srcObject,
                   loadedHandler, loadedPending, frames, targetFrame,
                   orphanTimeouts, zeroEffect, now, runLen, runTaps>>

RemoveAt(s, i) == [j \in 1..(Len(s) - 1) |-> IF j < i THEN s[j] ELSE s[j + 1]]

\* getUserMedia resolves with a stream: enableWebcam after its await.
Tap_StreamGranted ==
    \E i \in 1..Len(gum) :
        /\ component = "FingerTapTest"
        /\ gum' = RemoveAt(gum, i)
        /\ IF mounted
           THEN /\ srcObject' = TRUE
                /\ requestRef' = NewChain
                /\ frames' = ScheduledFrames(gum[i])
                /\ isWebcamEnabled' = TRUE
           ELSE UNCHANGED <<srcObject, requestRef, frames, isWebcamEnabled>>
        /\ liveStreams' = liveStreams + 1
        /\ op' = "granted"
        /\ UNCHANGED <<pureVars, draftVars, component, isTestRunning, timeLeft,
                       history, testResults,
                       chartData, wasTapped, targetPosition, testTimeoutRef,
                       targetAnimationRef, mounted, landmarker, loadedHandler,
                       loadedPending, targetFrame, orphanTimeouts, zeroEffect,
                       now, clicks, runLen, runTaps>>

\* getUserMedia rejects: the catch logs the error.
Tap_StreamDenied ==
    \E i \in 1..Len(gum) :
        /\ component = "FingerTapTest"
        /\ gum' = RemoveAt(gum, i)
        /\ op' = "denied"
        /\ UNCHANGED <<pureVars, draftVars, cameraVars, component, stateVars,
                       refVars, mounted, landmarker,
                       srcObject, loadedHandler, loadedPending, frames,
                       targetFrame, orphanTimeouts, zeroEffect, now, clicks,
                       runLen, runTaps>>

\* The countdown effect: while isTestRunning && timeLeft > 0 an interval
\* calls setTimeLeft(prev => Math.max(0, prev - 1)); the effect of the render
\* that shows 0 is then pending.
Tap_CountdownTick ==
    /\ component = "FingerTapTest"
    /\ mounted /\ isTestRunning /\ timeLeft > 0
    /\ timeLeft' = (IF timeLeft - 1 > 0 THEN timeLeft - 1 ELSE 0)
    /\ zeroEffect' = (timeLeft' = 0)
    /\ op' = "tick"
    /\ UNCHANGED <<pureVars, draftVars, cameraVars, component, isWebcamEnabled,
                   isTestRunning, history,
                   testResults, chartData, wasTapped, targetPosition, refVars,
                   mounted, landmarker, gum, srcObject, loadedHandler,
                   loadedPending, frames, targetFrame, orphanTimeouts, now,
                   clicks, runLen, runTaps>>

\* The pending countdown effect runs: isTestRunning && timeLeft === 0 in its
\* render, so it calls handleStopTest.
Tap_CountdownZero ==
    /\ component = "FingerTapTest"
    /\ zeroEffect
    /\ zeroEffect' = FALSE
    /\ orphanTimeouts' = orphanTimeouts
    /\ op' = (IF isTestRunning THEN "stop:countdown" ELSE "stop:again")
    /\ Tap_handleStopTest

\* An auto-stop timeout fires: setTimeout(handleStopTest, TEST_DURATION).
Tap_Timeout ==
    /\ component = "FingerTapTest"
    /\ testTimeoutRef = "armed"
    /\ orphanTimeouts' = orphanTimeouts
    /\ op' = "stop:timeout"
    /\ zeroEffect' = zeroEffect
    /\ Tap_handleStopTest

\* The component unmounts: the cleanup cancels the frame request and the
\* timeout and stops the tracks of the stream attached to the video element;
\* the pending effects have been flushed before.
Tap_Unmount ==
    /\ component = "FingerTapTest"
    /\ mounted /\ ~zeroEffect
    /\ mounted' = FALSE
    /\ frames' = CancelledFrames
    /\ testTimeoutRef' = AfterCancel(testTimeoutRef)
    /\ liveStreams' = (IF srcObject THEN liveStreams - 1 ELSE liveStreams)
    /\ op' = "unmount"
    /\ UNCHANGED <<pureVars, draftVars, component, stateVars, requestRef,
                   targetAnimationRef, landmarker, gum,
                   srcObject, loadedHandler, loadedPending, targetFrame,
                   orphanTimeouts, zeroEffect, now, clicks, runLen, runTaps>>

InitTap == Mounted("FingerTapTest")

NextTap ==
    \/ LandmarkerLoads
    \/ ClockTick
    \/ Tap_EnableClick
    \/ Tap_StreamGranted
    \/ Tap_StreamDenied
    \/ Tap_StartClick
    \/ Tap_Frame
    \/ Tap_FrameThrows
    \/ Tap_CountdownTick
    \/ Tap_CountdownZero
    \/ Tap_Timeout
    \/ Tap_Unmount

SpecTap == InitTap /\ [][NextTap]_vars

\* What the browser does by itself happens: timers and intervals fire,
\* effects and frame callbacks run, promises settle.  What the user does
\* (clicks, leaving the page) need not happen.
Tap_Fairness ==
    /\ WF_vars(LandmarkerLoads)
    /\ WF_vars(Tap_StreamGranted \/ Tap_StreamDenied)
    /\ WF_vars(Tap_Frame)
    /\ WF_vars(Tap_CountdownTick)
    /\ WF_vars(Tap_CountdownZero)
    /\ WF_vars(Tap_Timeout)

SpecTapFair == SpecTap /\ Tap_Fairness

(***************************************************************************)
(* What the two eye-tracking components share.                             *)
(***************************************************************************)
\* results.faceLandmarks[0] with all ten iris landmarks, in a pose.
FullFace(pose) == [index \in IrisIndices |-> LandmarkAt(index, pose)]
\* A face whose right iris the detector did not return.
PartialFace == [index \in 473..477 |-> LandmarkAt(index, 1)]
\* results.faceLandmarks of one frame: no face, or one face.
FaceResults ==
    {<<>>, <<PartialFace>>} \cup {<<FullFace(pose)>> : pose \in 1..MaxPoses}

\* The sample predictWebcam appends.
GazeSample(cap, results) ==
    [timestamp |-> now, target |-> cap.targetPosition,
     gaze |-> calculateGazePosition(results[1]).average]

\* A detection that appends whatever isTestRunning is.
Eye_DetectionAlways(cap, results) ==
    /\ Len(results) > 0
    /\ calculateGazePosition(results[1]).average # Null

\* A detection that appends the sample of a face without a gaze too.
Eye_DetectionAnyGaze(cap, results) ==
    /\ Len(results) > 0
    /\ cap.isTestRunning

\* predictWebcam appends a sample: a face, a gaze, and isTestRunning in its
\* closure.
Eye_Detection(cap, results) ==
    /\ Len(results) > 0
    /\ calculateGazePosition(results[1]).average # Null
    /\ cap.isTestRunning

\* What a frame that reached the detector and appended nothing did, as
\* observed: the detector returned no face ("frame:empty") or a face.
Eye_FrameOp(results) ==
    IF Len(results) = 0 THEN "frame:empty" ELSE "frame:detect"

\* The target at clock value t, on the circle of the given radius around the
\* centre; a unit of the clock is a quarter of a revolution.
Cos4(t) == CASE t % 4 = 0 -> 1 [] t % 4 = 2 -> -1 [] OTHER -> 0
Sin4(t) == CASE t % 4 = 1 -> 1 [] t % 4 = 3 -> -1 [] OTHER -> 0
TargetAt(radius, t) ==
    [x |-> 500 + radius * Cos4(t), y |-> 500 + radius * Sin4(t)]

\* Not a number: 0 / 0.
NaN == [kind |-> "NaN", hund |-> 0]

\* validPoints and totalDistance of the forEach over the history.
ValidPoints(h) == Cardinality({i \in 1..Len(h) : h[i].gaze # Null})
TotalDistance(h) ==
    SumSeq([i \in 1..Len(h) |->
              IF h[i].gaze # Null
              THEN Hypot(h[i].target.x - h[i].gaze.x, h[i].target.y - h[i].gaze.y)
              ELSE 0])

\* A score without Math.max(0, ...).
TrackingScoreNoFloor(total, valid, K) ==
    10000 - RoundDiv(total * K, valid * 10)

\* Math.max(0, 100 - averageError * K).toFixed(2), in hundredths, for an
\* average error of total / valid thousandths.
TrackingScore(total, valid, K) ==
    LET raw == 10000 - RoundDiv(total * K, valid * 10)
    IN  IF raw > 0 THEN raw ELSE 0

(***************************************************************************)
(* EyeTrackingTest, the timed draft (part_003 lines 1-199).                *)
(***************************************************************************)
Eye_Radius == 350
Eye_K == 150

Eye_predictWebcam(f, ready, results) ==
    IF ~mounted \/ ~srcObject
    THEN /\ frames' = (IF requestRef # NoRequest THEN frames ELSE frames \ {f})
         /\ requestRef' = (IF requestRef # NoRequest THEN f.chain ELSE NoRequest)
         /\ op' = "frame:unready"
         /\ history' = history
    ELSE /\ requestRef' = f.chain
         /\ frames' = frames
         /\ IF ~ready
            THEN op' = "frame:novideo" /\ history' = history
            ELSE IF Eye_Detection(f.cap, results)
                 THEN /\ history' = Append(history, GazeSample(f.cap, results))
                      /\ op' = "frame:append"
                 ELSE /\ history' = history
                      /\ op' = Eye_FrameOp(results)

Eye_Frame ==
    \E f \in frames, ready \in BOOLEAN, results \in FaceResults :
        /\ component = "EyeTrackingTest (timed)"
        /\ Len(history) < MaxHistory
        /\ Eye_predictWebcam(f, ready, results)
        /\ UNCHANGED <<pureVars, draftVars, cameraVars, component,
                       isWebcamEnabled, isTestRunning,
                       timeLeft, testResults, chartData, wasTapped,
                       targetPosition, testTimeoutRef, targetAnimationRef,
                       mounted, landmarker, gum, srcObject, loadedHandler,
                       loadedPending, targetFrame, orphanTimeouts, zeroEffect,
                       now, clicks, runLen, runTaps>>

\* predictWebcam, the callback f of a chain, when detectForVideo throws.
Eye_FrameThrows ==
    \E f \in frames :
        /\ component = "EyeTrackingTest (timed)"
        /\ DetectorThrows(f)

\* The results and the chart of the updater in handleStopTest.
Eye_Results(currentGazeHistory) ==
    IF Len(currentGazeHistory) > 0
    THEN LET validPoints == ValidPoints(currentGazeHistory)
             totalDistance == TotalDistance(currentGazeHistory)
         IN  [trackingScore |->
                  IF validPoints > 0
                  THEN Finite(TrackingScore(totalDistance, validPoints, Eye_K))
                  ELSE Finite(10000),
              pointsCollected |-> validPoints]
    ELSE [trackingScore |-> Finite(0), pointsCollected |-> 0]

\* currentGazeHistory.map(p => ({ x: p.target.x, y: p.target.y }))
TargetPath(h) == [i \in 1..Len(h) |-> [x |-> h[i].target.x, y |-> h[i].target.y]]

\* currentGazeHistory.map(p => p.gaze ? { x: p.gaze.x, y: p.gaze.y } : null)
GazePathWithNulls(h) ==
    [i \in 1..Len(h) |->
        IF h[i].gaze # Null THEN [x |-> h[i].gaze.x, y |-> h[i].gaze.y] ELSE Null]

\* ... .filter(p => p)
GazePath(h) == SelectSeq(GazePathWithNulls(h), LAMBDA p : p # Null)

\* A chart whose gaze path keeps the nulls of the samples without a gaze.
Eye_ChartDataUnfiltered(currentGazeHistory) ==
    IF Len(currentGazeHistory) > 0
    THEN [datasets |->
            <<[label |-> "Target Path", data |-> TargetPath(currentGazeHistory)],
              [label |-> "Gaze Path",
               data |-> GazePathWithNulls(currentGazeHistory)]>>]
    ELSE Null

Eye_ChartData(currentGazeHistory) ==
    IF Len(currentGazeHistory) > 0
    THEN [datasets |->
            <<[label |-> "Target Path", data |-> TargetPath(currentGazeHistory)],
              [label |-> "Gaze Path", data |-> GazePath(currentGazeHistory)]>>]
    ELSE Null

\* handleStopTest.  The state setters of an unmounted component do nothing.
Eye_handleStopTest ==
    /\ testTimeoutRef' = AfterCancel(testTimeoutRef)
    /\ targetAnimationRef' = AfterCancel(targetAnimationRef)
    /\ targetFrame' = FALSE
    /\ IF mounted
       THEN /\ isTestRunning' = FALSE
            /\ timeLeft' = 0
            /\ testResults' = Eye_Results(history)
            /\ chartData' = Eye_ChartData(history)
       ELSE UNCHANGED <<isTestRunning, timeLeft, testResults, chartData>>
    /\ UNCHANGED <<pureVars, draftVars, cameraVars, component, isWebcamEnabled,
                   history, wasTapped,
                   targetPosition, requestRef, mounted, landmarker, gum,
                   srcObject, loadedHandler, loadedPending, frames, now,
                   clicks, runLen, runTaps>>

\* The Start button is in the document: isWebcamEnabled && !isTestRunning.
Eye_StartButton == mounted /\ isWebcamEnabled /\ ~isTestRunning /\ ~zeroEffect

\* handleStartTest, and the target animation effect of the render it causes.
Eye_handleStartTest ==
    /\ history' = <<>>
    /\ testResults' = Null
    /\ chartData' = Null
    /\ isTestRunning' = TRUE
    /\ timeLeft' = TEST_DURATION \div 1000
    /\ testTimeoutRef' = "armed"
    /\ orphanTimeouts' =
           (IF testTimeoutRef = "armed" THEN orphanTimeouts + 1 ELSE orphanTimeouts)
    /\ targetAnimationRef' = "armed"
    /\ targetFrame' = TRUE
    /\ op' = "start"
    /\ UNCHANGED <<pureVars, draftVars, cameraVars, component, isWebcamEnabled,
                   wasTapped,
                   targetPosition, requestRef, mounted, landmarker, gum,
                   srcObject, loadedHandler, loadedPending, frames, zeroEffect,
                   now, clicks, runLen, runTaps>>

Eye_StartClick ==
    /\ component = "EyeTrackingTest (timed)"
    /\ mounted
    /\ IF Eye_StartButton
       THEN Eye_handleStartTest
       ELSE /\ op' = "start:rejected"
            /\ UNCHANGED <<pureVars, draftVars, cameraVars, component,
                           stateVars, refVars, hostVars,
                           runLen, runTaps>>

\* animateTarget, scheduled by the target animation effect.
Eye_TargetFrame ==
    /\ component = "EyeTrackingTest (timed)"
    /\ targetFrame
    /\ targetPosition' = TargetAt(Eye_Radius, now)
    /\ op' = "target"
    /\ UNCHANGED <<pureVars, draftVars, cameraVars, component, isWebcamEnabled,
                   isTestRunning,
                   timeLeft, history, testResults, chartData, wasTapped,
                   refVars, mounted, landmarker, gum, srcObject, loadedHandler,
                   loadedPending, frames, targetFrame, orphanTimeouts,
                   zeroEffect, now, clicks, runLen, runTaps>>

\* enableWebcam up to its await.
Eye_EnableClick ==
    /\ component = "EyeTrackingTest (timed)"
    /\ mounted /\ ~isWebcamEnabled /\ landmarker # "loading"
    /\ clicks < MaxEnableClicks
    /\ clicks' = clicks + 1
    /\ gum' = (IF landmarker = "ready" THEN Append(gum, Closure) ELSE gum)
    /\ op' = "enable"
    /\ UNCHANGED <<pureVars, draftVars, cameraVars, component, stateVars,
                   refVars, mounted,
                   landmarker, srcObject, loadedHandler, loadedPending, frames,
                   targetFrame, orphanTimeouts, zeroEffect, now, runLen,
                   runTaps>>

\* enableWebcam after its await.
Eye_StreamGranted ==
    \E i \in 1..Len(gum) :
        /\ component = "EyeTrackingTest (timed)"
        /\ gum' = RemoveAt(gum, i)
        /\ IF mounted
           THEN /\ srcObject' = TRUE
                /\ requestRef' = NewChain
                /\ frames' = ScheduledFrames(gum[i])
                /\ isWebcamEnabled' = TRUE
           ELSE UNCHANGED <<srcObject, requestRef, frames, isWebcamEnabled>>
        /\ liveStreams' = liveStreams + 1
        /\ op' = "granted"
        /\ UNCHANGED <<pureVars, draftVars, component, isTestRunning, timeLeft,
                       history,
                       testResults, chartData, wasTapped, targetPosition,
                       testTimeoutRef, targetAnimationRef, mounted, landmarker,
                       loadedHandler, loadedPending, targetFrame,
                       orphanTimeouts, zeroEffect, now, clicks, runLen,
                       runTaps>>

\* enableWebcam, the catch.
Eye_StreamDenied ==
    \E i \in 1..Len(gum) :
        /\ component = "EyeTrackingTest (timed)"
        /\ gum' = RemoveAt(gum, i)
        /\ op' = "denied"
        /\ UNCHANGED <<pureVars, draftVars, cameraVars, component, stateVars,
                       refVars, mounted,
                       landmarker, srcObject, loadedHandler, loadedPending,
                       frames, targetFrame, orphanTimeouts, zeroEffect, now,
                       clicks, runLen, runTaps>>

\* The countdown effect, its interval.
Eye_CountdownTick ==
    /\ component = "EyeTrackingTest (timed)"
    /\ mounted /\ isTestRunning /\ timeLeft > 0
    /\ timeLeft' = (IF timeLeft - 1 > 0 THEN timeLeft - 1 ELSE 0)
    /\ zeroEffect' = (timeLeft' = 0)
    /\ op' = "tick"
    /\ UNCHANGED <<pureVars, draftVars, cameraVars, component, isWebcamEnabled,
                   isTestRunning,
                   history, testResults, chartData, wasTapped, targetPosition,
                   refVars, mounted, landmarker, gum, srcObject, loadedHandler,
                   loadedPending, frames, targetFrame, orphanTimeouts, now,
                   clicks, runLen, runTaps>>

\* The countdown effect of the render with isTestRunning && timeLeft === 0.
Eye_CountdownZero ==
    /\ component = "EyeTrackingTest (timed)"
    /\ zeroEffect
    /\ zeroEffect' = FALSE
    /\ orphanTimeouts' = orphanTimeouts
    /\ op' = (IF isTestRunning THEN "stop:countdown" ELSE "stop:again")
    /\ Eye_handleStopTest

\* setTimeout(handleStopTest, TEST_DURATION) fires.
Eye_Timeout ==
    /\ component = "EyeTrackingTest (timed)"
    /\ testTimeoutRef = "armed"
    /\ orphanTimeouts' = orphanTimeouts
    /\ op' = "stop:timeout"
    /\ zeroEffect' = zeroEffect
    /\ Eye_handleStopTest

\* The unmount cleanup, with the cleanup of the target animation effect.
Eye_Unmount ==
    /\ component = "EyeTrackingTest (timed)"
    /\ mounted /\ ~zeroEffect
    /\ mounted' = FALSE
    /\ frames' = CancelledFrames
    /\ testTimeoutRef' = AfterCancel(testTimeoutRef)
    /\ targetAnimationRef' = AfterCancel(targetAnimationRef)
    /\ targetFrame' = FALSE
    /\ liveStreams' = (IF srcObject THEN liveStreams - 1 ELSE liveStreams)
    /\ op' = "unmount"
    /\ UNCHANGED <<pureVars, draftVars, component, stateVars, requestRef,
                   landmarker,
                   gum, srcObject, loadedHandler, loadedPending,
                   orphanTimeouts, zeroEffect, now, clicks, runLen, runTaps>>

InitEye == Mounted("EyeTrackingTest (timed)")

NextEye ==
    \/ LandmarkerLoads
    \/ ClockTick
    \/ Eye_EnableClick
    \/ Eye_StreamGranted
    \/ Eye_StreamDenied
    \/ Eye_StartClick
    \/ Eye_TargetFrame
    \/ Eye_Frame
    \/ Eye_FrameThrows
    \/ Eye_CountdownTick
    \/ Eye_CountdownZero
    \/ Eye_Timeout
    \/ Eye_Unmount

SpecEye == InitEye /\ [][NextEye]_vars

Eye_Fairness ==
    /\ WF_vars(LandmarkerLoads)
    /\ WF_vars(Eye_StreamGranted \/ Eye_StreamDenied)
    /\ WF_vars(Eye_Frame)
    /\ WF_vars(Eye_TargetFrame)
    /\ WF_vars(Eye_CountdownTick)
    /\ WF_vars(Eye_CountdownZero)
    /\ WF_vars(Eye_Timeout)

SpecEyeFair == SpecEye /\ Eye_Fairness

(***************************************************************************)
(* EyeTrackingTest with Start and Stop buttons (EyeTrackingTest.tsx).      *)
(***************************************************************************)
EyeS_Radius == 400
EyeS_K == 100

\* A guard that looks at the stream only.
EyeS_NotReadyStreamOnly == ~srcObject

\* !videoRef.current || !canvasRef.current || !landmarker ||
\* !videoRef.current.srcObject: the refs are null once unmounted, and the
\* landmarker of the closure is the one enableWebcam found.
EyeS_NotReady == ~mounted \/ ~srcObject

\* A predictWebcam that returns, without a next request, when the detector
\* finds no face.
EyeS_predictWebcamEmptyReturns(f, ready, results) ==
    IF EyeS_NotReady
    THEN /\ frames' = frames \ {f}
         /\ requestRef' = requestRef
         /\ op' = "frame:unready"
         /\ history' = history
    ELSE IF ready /\ Len(results) = 0
         THEN /\ frames' = frames \ {f}
              /\ requestRef' = requestRef
              /\ op' = "frame:empty"
              /\ history' = history
         ELSE /\ requestRef' = f.chain
              /\ frames' = frames
              /\ IF ~ready
                 THEN op' = "frame:novideo" /\ history' = history
                 ELSE IF Eye_Detection(f.cap, results)
                      THEN /\ history' = (IF mounted
                                          THEN Append(history, GazeSample(f.cap, results))
                                          ELSE history)
                           /\ op' = "frame:append"
                      ELSE /\ history' = history
                           /\ op' = Eye_FrameOp(results)

EyeS_predictWebcam(f, ready, results) ==
    IF EyeS_NotReady
    THEN /\ frames' = frames \ {f}
         /\ requestRef' = requestRef
         /\ op' = "frame:unready"
         /\ history' = history
    ELSE /\ requestRef' = f.chain
         /\ frames' = frames
         /\ IF ~ready
            THEN op' = "frame:novideo" /\ history' = history
            ELSE IF Eye_Detection(f.cap, results)
                 THEN /\ history' = (IF mounted
                                     THEN Append(history, GazeSample(f.cap, results))
                                     ELSE history)
                      /\ op' = "frame:append"
                 ELSE /\ history' = history
                      /\ op' = Eye_FrameOp(results)

EyeS_Frame ==
    \E f \in frames, ready \in BOOLEAN, results \in FaceResults :
        /\ component = "EyeTrackingTest"
        /\ Len(history) < MaxHistory
        /\ EyeS_predictWebcam(f, ready, results)
        /\ UNCHANGED <<pureVars, draftVars, cameraVars, component,
                       isWebcamEnabled, isTestRunning,
                       timeLeft, testResults, chartData, wasTapped,
                       targetPosition, testTimeoutRef, targetAnimationRef,
                       mounted, landmarker, gum, srcObject, loadedHandler,
                       loadedPending, targetFrame, orphanTimeouts, zeroEffect,
                       now, clicks, runLen, runTaps>>

\* predictWebcam, the callback f of a chain, when detectForVideo throws.
EyeS_FrameThrows ==
    \E f \in frames :
        /\ component = "EyeTrackingTest"
        /\ DetectorThrows(f)

\* The results handleStopTest sets, for a history that is not empty.
EyeS_Results(gazeHistory) ==
    LET validPoints == ValidPoints(gazeHistory)
        totalDistance == TotalDistance(gazeHistory)
    IN  [trackingScore |->
             IF validPoints > 0
             THEN Finite(TrackingScore(totalDistance, validPoints, EyeS_K))
             ELSE NaN,
         pointsCollected |-> validPoints]

\* The Start button is enabled: disabled={isTestRunning}.
EyeS_StartButton == mounted /\ isWebcamEnabled /\ ~isTestRunning

\* handleStartTest, and the target animation effect of the render it causes
\* (it calls animateTarget once itself).
EyeS_handleStartTest ==
    /\ history' = <<>>
    /\ testResults' = Null
    /\ isTestRunning' = TRUE
    /\ targetPosition' = TargetAt(EyeS_Radius, now)
    /\ targetFrame' = TRUE
    /\ op' = "start"
    /\ UNCHANGED <<pureVars, draftVars, cameraVars, component, isWebcamEnabled,
                   timeLeft, chartData,
                   wasTapped, refVars, mounted, landmarker, gum, srcObject,
                   loadedHandler, loadedPending, frames, orphanTimeouts,
                   zeroEffect, now, clicks, runLen, runTaps>>

EyeS_StartClick ==
    /\ component = "EyeTrackingTest"
    /\ mounted
    /\ IF EyeS_StartButton
       THEN EyeS_handleStartTest
       ELSE /\ op' = "start:rejected"
            /\ UNCHANGED <<pureVars, draftVars, cameraVars, component,
                           stateVars, refVars, hostVars,
                           runLen, runTaps>>

\* A handleStopTest after which the target animation is not cancelled.
EyeS_handleStopTestKeepsAnimation ==
    /\ component = "EyeTrackingTest"
    /\ mounted /\ isWebcamEnabled /\ isTestRunning
    /\ isTestRunning' = FALSE
    /\ testResults' = (IF Len(history) > 0 THEN EyeS_Results(history)
                                           ELSE testResults)
    /\ targetFrame' = targetFrame
    /\ op' = "stop:click"
    /\ UNCHANGED <<pureVars, draftVars, cameraVars, component, isWebcamEnabled,
                   timeLeft, history,
                   chartData, wasTapped, targetPosition, refVars, mounted,
                   landmarker, gum, srcObject, loadedHandler, loadedPending,
                   frames, orphanTimeouts, zeroEffect, now, clicks, runLen,
                   runTaps>>

\* The Stop button (disabled={!isTestRunning}): handleStopTest, and the
\* cleanup of the target animation effect in the render it causes.
EyeS_handleStopTest ==
    /\ component = "EyeTrackingTest"
    /\ mounted /\ isWebcamEnabled /\ isTestRunning
    /\ isTestRunning' = FALSE
    /\ testResults' = (IF Len(history) > 0 THEN EyeS_Results(history)
                                           ELSE testResults)
    /\ targetFrame' = FALSE
    /\ op' = "stop:click"
    /\ UNCHANGED <<pureVars, draftVars, cameraVars, component, isWebcamEnabled,
                   timeLeft, history,
                   chartData, wasTapped, targetPosition, refVars, mounted,
                   landmarker, gum, srcObject, loadedHandler, loadedPending,
                   frames, orphanTimeouts, zeroEffect, now, clicks, runLen,
                   runTaps>>

\* animateTarget, scheduled by the target animation effect.
EyeS_TargetFrame ==
    /\ component = "EyeTrackingTest"
    /\ targetFrame
    /\ targetPosition' = TargetAt(EyeS_Radius, now)
    /\ op' = "target"
    /\ UNCHANGED <<pureVars, draftVars, cameraVars, component, isWebcamEnabled,
                   isTestRunning,
                   timeLeft, history, testResults, chartData, wasTapped,
                   refVars, mounted, landmarker, gum, srcObject, loadedHandler,
                   loadedPending, frames, targetFrame, orphanTimeouts,
                   zeroEffect, now, clicks, runLen, runTaps>>

\* enableWebcam up to its await (the button is shown while !isWebcamEnabled).
EyeS_EnableClick ==
    /\ component = "EyeTrackingTest"
    /\ mounted /\ ~isWebcamEnabled /\ landmarker # "loading"
    /\ clicks < MaxEnableClicks
    /\ clicks' = clicks + 1
    /\ gum' = (IF landmarker = "ready" THEN Append(gum, Closure) ELSE gum)
    /\ op' = "enable"
    /\ UNCHANGED <<pureVars, draftVars, cameraVars, component, stateVars,
                   refVars, mounted,
                   landmarker, srcObject, loadedHandler, loadedPending, frames,
                   targetFrame, orphanTimeouts, zeroEffect, now, runLen,
                   runTaps>>

\* enableWebcam after its await: the stream is attached and onloadeddata is
\* set; the video element loads the new stream.
EyeS_StreamGranted ==
    \E i \in 1..Len(gum) :
        /\ component = "EyeTrackingTest"
        /\ gum' = RemoveAt(gum, i)
        /\ IF mounted
           THEN /\ srcObject' = TRUE
                /\ loadedHandler' = gum[i]
                /\ loadedPending' = 1
           ELSE UNCHANGED <<srcObject, loadedHandler, loadedPending>>
        /\ liveStreams' = liveStreams + 1
        /\ op' = "granted"
        /\ UNCHANGED <<pureVars, draftVars, component, stateVars, refVars,
                       mounted,
                       landmarker, frames, targetFrame, orphanTimeouts,
                       zeroEffect, now, clicks, runLen, runTaps>>

\* enableWebcam, the catch.
EyeS_StreamDenied ==
    \E i \in 1..Len(gum) :
        /\ component = "EyeTrackingTest"
        /\ gum' = RemoveAt(gum, i)
        /\ op' = "denied"
        /\ UNCHANGED <<pureVars, draftVars, cameraVars, component, stateVars,
                       refVars, mounted,
                       landmarker, srcObject, loadedHandler, loadedPending,
                       frames, targetFrame, orphanTimeouts, zeroEffect, now,
                       clicks, runLen, runTaps>>

\* The video element fires loadeddata: the onloadeddata handler.  The element
\* outlives the component, so the event may come after the unmount.
EyeS_LoadedData ==
    /\ component = "EyeTrackingTest"
    /\ loadedPending > 0
    /\ loadedPending' = 0
    /\ isWebcamEnabled' = (IF mounted THEN TRUE ELSE isWebcamEnabled)
    /\ requestRef' = NewChain
    /\ frames' = ScheduledFrames(loadedHandler)
    /\ op' = "loadeddata"
    /\ UNCHANGED <<pureVars, draftVars, cameraVars, component, isTestRunning,
                   timeLeft, history,
                   testResults, chartData, wasTapped, targetPosition,
                   testTimeoutRef, targetAnimationRef, mounted, landmarker,
                   gum, srcObject, loadedHandler, targetFrame, orphanTimeouts,
                   zeroEffect, now, clicks, runLen, runTaps>>

\* The unmount cleanup (it stops the tracks of videoRef.current.srcObject),
\* with the cleanup of the target animation effect.
EyeS_Unmount ==
    /\ component = "EyeTrackingTest"
    /\ mounted
    /\ mounted' = FALSE
    /\ frames' = CancelledFrames
    /\ targetFrame' = FALSE
    /\ liveStreams' = (IF srcObject THEN liveStreams - 1 ELSE liveStreams)
    /\ op' = "unmount"
    /\ UNCHANGED <<pureVars, draftVars, component, stateVars, refVars,
                   landmarker, gum,
                   srcObject, loadedHandler, loadedPending, orphanTimeouts,
                   zeroEffect, now, clicks, runLen, runTaps>>

InitEyeShipped == Mounted("EyeTrackingTest")

NextEyeShipped ==
    \/ LandmarkerLoads
    \/ ClockTick
    \/ EyeS_EnableClick
    \/ EyeS_StreamGranted
    \/ EyeS_StreamDenied
    \/ EyeS_LoadedData
    \/ EyeS_StartClick
    \/ EyeS_handleStopTest
    \/ EyeS_TargetFrame
    \/ EyeS_Frame
    \/ EyeS_FrameThrows
    \/ EyeS_Unmount

SpecEyeShipped == InitEyeShipped /\ [][NextEyeShipped]_vars

\* The component arms no timer and no interval: what happens by itself are
\* the promises, the loadeddata event and the frame callbacks.
EyeS_Fairness ==
    /\ WF_vars(LandmarkerLoads)
    /\ WF_vars(EyeS_StreamGranted \/ EyeS_StreamDenied)
    /\ WF_vars(EyeS_LoadedData)
    /\ WF_vars(EyeS_Frame)
    /\ WF_vars(EyeS_TargetFrame)

SpecEyeShippedFair == SpecEyeShipped /\ EyeS_Fairness

(***************************************************************************)
(* The three components together: one of them is mounted.                  *)
(***************************************************************************)
(***************************************************************************)
(* EyeTrackingTest, the draft with the instructions card (part_004): its   *)
(* handleStartTest and handleStopTest.  Its predictWebcam, enableWebcam    *)
(* and its two effects are not in the file ("same as before"); the steps   *)
(* the two handlers depend on are those of the timed draft (part_003).     *)
(***************************************************************************)
\* The results handleStopTest sets, for a gazeHistory that is not empty.
Eye4_Results(gazeHistory) ==
    LET validPoints == ValidPoints(gazeHistory)
        totalDistance == TotalDistance(gazeHistory)
    IN  [trackingScore |->
             IF validPoints > 0
             THEN Finite(TrackingScore(totalDistance, validPoints, Eye_K))
             ELSE NaN,
         pointsCollected |-> validPoints]

\* handleStopTest = useCallback(..., [gazeHistory]): it reads the gazeHistory
\* of the render that made it, and leaves testTimeoutRef alone.
Eye4_handleStopTest(gazeHistory) ==
    /\ IF mounted
       THEN /\ isTestRunning' = FALSE
            /\ timeLeft' = 0
            /\ IF Len(gazeHistory) > 0
               THEN /\ testResults' = Eye4_Results(gazeHistory)
                    /\ chartData' = [data |-> gazeHistory]
               ELSE UNCHANGED <<testResults, chartData>>
       ELSE UNCHANGED <<isTestRunning, timeLeft, testResults, chartData>>
    /\ UNCHANGED <<pureVars, cameraVars, component, isWebcamEnabled, history, wasTapped,
                   targetPosition, requestRef, targetAnimationRef, mounted,
                   landmarker, gum, srcObject, loadedHandler, loadedPending,
                   frames, targetFrame, now, clicks, instructionsVisible,
                   runLen, runTaps>>

\* The Start button is on the instructions card: disabled={!isWebcamEnabled}.
Eye4_StartButton == mounted /\ instructionsVisible /\ isWebcamEnabled

\* handleStartTest.  The handleStopTest it hands to setTimeout is that of the
\* render the click took place in, whose gazeHistory is the history so far.
Eye4_handleStartTest ==
    /\ instructionsVisible' = FALSE
    /\ history' = <<>>
    /\ testResults' = Null
    /\ chartData' = Null
    /\ isTestRunning' = TRUE
    /\ timeLeft' = TEST_DURATION \div 1000
    /\ testTimeoutRef' = "armed"
    /\ stopClosure' = history
    /\ orphanTimeouts' =
           (IF testTimeoutRef = "armed" THEN orphanTimeouts + 1 ELSE orphanTimeouts)
    /\ op' = "start"
    /\ UNCHANGED <<pureVars, cameraVars, component, isWebcamEnabled, wasTapped,
                   targetPosition, requestRef, targetAnimationRef, mounted,
                   landmarker, gum, srcObject, loadedHandler, loadedPending,
                   frames, targetFrame, zeroEffect, now, clicks, runLen,
                   runTaps>>

Eye4_StartClick ==
    /\ component = "EyeTrackingTest (instructions)"
    /\ mounted
    /\ IF Eye4_StartButton
       THEN Eye4_handleStartTest
       ELSE /\ op' = "start:rejected"
            /\ UNCHANGED <<pureVars, draftVars, cameraVars, component,
                           stateVars, refVars,
                           hostVars, runLen, runTaps>>

\* enableWebcam, called by the mount effect: setIsWebcamEnabled(true).
Eye4_enableWebcam ==
    /\ component = "EyeTrackingTest (instructions)"
    /\ mounted /\ ~isWebcamEnabled
    /\ isWebcamEnabled' = TRUE
    /\ op' = "granted"
    /\ UNCHANGED <<pureVars, draftVars, cameraVars, component, isTestRunning,
                   timeLeft,
                   history, testResults, chartData, wasTapped, targetPosition,
                   refVars, mounted, landmarker, gum, srcObject, loadedHandler,
                   loadedPending, frames, targetFrame, orphanTimeouts,
                   zeroEffect, now, clicks, runLen, runTaps>>

\* predictWebcam of the current render, its detection.
Eye4_Frame ==
    \E results \in FaceResults :
        /\ component = "EyeTrackingTest (instructions)"
        /\ mounted /\ isWebcamEnabled
        /\ Len(history) < MaxHistory
        /\ IF Eye_Detection(Closure, results)
           THEN /\ history' = Append(history, GazeSample(Closure, results))
                /\ op' = "frame:append"
           ELSE /\ history' = history
                /\ op' = Eye_FrameOp(results)
        /\ UNCHANGED <<pureVars, draftVars, cameraVars, component,
                       isWebcamEnabled,
                       isTestRunning, timeLeft, testResults, chartData,
                       wasTapped, targetPosition, refVars, mounted, landmarker,
                       gum, srcObject, loadedHandler, loadedPending, frames,
                       targetFrame, orphanTimeouts, zeroEffect, now, clicks,
                       runLen, runTaps>>

\* The countdown effect, its interval.
Eye4_CountdownTick ==
    /\ component = "EyeTrackingTest (instructions)"
    /\ mounted /\ isTestRunning /\ timeLeft > 0
    /\ timeLeft' = (IF timeLeft - 1 > 0 THEN timeLeft - 1 ELSE 0)
    /\ zeroEffect' = (timeLeft' = 0)
    /\ op' = "tick"
    /\ UNCHANGED <<pureVars, draftVars, cameraVars, component, isWebcamEnabled,
                   isTestRunning, history, testResults, chartData, wasTapped,
                   targetPosition, refVars, mounted, landmarker, gum,
                   srcObject, loadedHandler, loadedPending, frames,
                   targetFrame, orphanTimeouts, now, clicks, runLen, runTaps>>

\* The countdown effect of the render with isTestRunning && timeLeft === 0:
\* it calls the handleStopTest of that render.
Eye4_CountdownZero ==
    /\ component = "EyeTrackingTest (instructions)"
    /\ zeroEffect
    /\ zeroEffect' = FALSE
    /\ op' = "stop:countdown"
    /\ Eye4_handleStopTest(history)
    /\ UNCHANGED <<testTimeoutRef, orphanTimeouts, stopClosure>>

\* setTimeout(handleStopTest, TEST_DURATION) fires: the handleStopTest of the
\* render of the Start click.
Eye4_Timeout ==
    /\ component = "EyeTrackingTest (instructions)"
    /\ testTimeoutRef = "armed"
    /\ testTimeoutRef' = "stale"
    /\ op' = "stop:timeout"
    /\ Eye4_handleStopTest(stopClosure)
    /\ UNCHANGED <<orphanTimeouts, zeroEffect, stopClosure>>

\* The cleanup of the mount effect.
Eye4_Unmount ==
    /\ component = "EyeTrackingTest (instructions)"
    /\ mounted /\ ~zeroEffect
    /\ mounted' = FALSE
    /\ frames' = CancelledFrames
    /\ testTimeoutRef' = AfterCancel(testTimeoutRef)
    /\ op' = "unmount"
    /\ UNCHANGED <<pureVars, draftVars, cameraVars, component, stateVars,
                   requestRef,
                   targetAnimationRef, landmarker, gum, srcObject,
                   loadedHandler, loadedPending, targetFrame, orphanTimeouts,
                   zeroEffect, now, clicks, runLen, runTaps>>

InitEye4 == Mounted("EyeTrackingTest (instructions)")

NextEye4 ==
    \/ ClockTick
    \/ Eye4_enableWebcam
    \/ Eye4_StartClick
    \/ Eye4_Frame
    \/ Eye4_CountdownTick
    \/ Eye4_CountdownZero
    \/ Eye4_Timeout
    \/ Eye4_Unmount

SpecEye4 == InitEye4 /\ [][NextEye4]_vars

(***************************************************************************)
(* FingerTapTest, the draft with Start and Stop buttons                    *)
(* (FingerTapTest.tsx 110-280).  The video element keeps every loadeddata  *)
(* listener enableWebcam adds: loadedHandler holds the sequence of their   *)
(* closures.                                                               *)
(***************************************************************************)
Tap2_Listeners ==
    IF loadedHandler = Null THEN <<>> ELSE loadedHandler.listeners

\* enableWebcam up to its await (the button is shown while !isWebcamEnabled,
\* disabled={isLoading}).
Tap2_EnableClick ==
    /\ component = "FingerTapTest (buttons)"
    /\ mounted /\ ~isWebcamEnabled /\ landmarker # "loading"
    /\ clicks < MaxEnableClicks
    /\ clicks' = clicks + 1
    /\ gum' = (IF landmarker = "ready" THEN Append(gum, Closure) ELSE gum)
    /\ op' = "enable"
    /\ UNCHANGED <<pureVars, draftVars, cameraVars, component, stateVars,
                   refVars, mounted, landmarker, srcObject, loadedHandler,
                   loadedPending, frames, targetFrame, orphanTimeouts,
                   zeroEffect, now, runLen, runTaps>>

\* enableWebcam after its await: the stream is attached and a loadeddata
\* listener is added; the video element loads the new stream.
Tap2_StreamGranted ==
    \E i \in 1..Len(gum) :
        /\ component = "FingerTapTest (buttons)"
        /\ gum' = RemoveAt(gum, i)
        /\ IF mounted
           THEN /\ srcObject' = TRUE
                /\ loadedHandler' = [listeners |-> Append(Tap2_Listeners, gum[i])]
                /\ loadedPending' = 1
           ELSE UNCHANGED <<srcObject, loadedHandler, loadedPending>>
        /\ liveStreams' = liveStreams + 1
        /\ op' = "granted"
        /\ UNCHANGED <<pureVars, draftVars, component, stateVars, refVars,
                       mounted, landmarker, frames, targetFrame,
                       orphanTimeouts, zeroEffect, now, clicks, runLen,
                       runTaps>>

\* enableWebcam, the catch.
Tap2_StreamDenied ==
    \E i \in 1..Len(gum) :
        /\ component = "FingerTapTest (buttons)"
        /\ gum' = RemoveAt(gum, i)
        /\ op' = "denied"
        /\ UNCHANGED <<pureVars, draftVars, cameraVars, component, stateVars,
                       refVars, mounted, landmarker, srcObject, loadedHandler,
                       loadedPending, frames, targetFrame, orphanTimeouts,
                       zeroEffect, now, clicks, runLen, runTaps>>

\* The video element fires loadeddata: every listener sets isWebcamEnabled
\* and calls its predictWebcam, which detects on the frame that has loaded
\* and requests the next one.  Without the refs (after the unmount) each
\* call returns at once.
Tap2_LoadedData ==
    \E results \in HandResults :
        LET n == Len(Tap2_Listeners)
            did == [j \in 1..n |-> Tap_Detection(Tap2_Listeners[j], results)]
            taps == Cardinality({j \in 1..n : did[j] = "tap"})
            changed == {j \in 1..n : did[j] # "none"}
            last == CHOOSE j \in changed : \A k \in changed : k <= j
        IN  /\ component = "FingerTapTest (buttons)"
            /\ loadedPending > 0
            /\ loadedPending' = 0
            /\ Len(history) + taps <= MaxHistory
            /\ IF mounted
               THEN /\ isWebcamEnabled' = TRUE
                    /\ history' = history \o [k \in 1..taps |-> now]
                    /\ wasTapped' = (IF changed = {} THEN wasTapped
                                     ELSE did[last] = "tap")
                    /\ requestRef' = NewChain + n - 1
                    /\ frames' = frames \cup
                           {[chain |-> NewChain + j - 1,
                             cap |-> Tap2_Listeners[j]] : j \in 1..n}
               ELSE UNCHANGED <<isWebcamEnabled, history, wasTapped,
                                requestRef, frames>>
            /\ op' = "loadeddata"
            /\ UNCHANGED <<pureVars, draftVars, cameraVars, component,
                           isTestRunning, timeLeft, testResults, chartData,
                           targetPosition, testTimeoutRef, targetAnimationRef,
                           mounted, landmarker, gum, srcObject, loadedHandler,
                           targetFrame, orphanTimeouts, zeroEffect, now,
                           clicks, runLen, runTaps>>

\* predictWebcam, the callback f of a chain: it returns without a new
\* request when a ref is missing, and requests the next frame otherwise.
Tap2_predictWebcam(f, ready, results) ==
    IF ~mounted
    THEN /\ frames' = frames \ {f}
         /\ op' = "frame:unready"
         /\ UNCHANGED <<requestRef, history, wasTapped, runLen, runTaps>>
    ELSE /\ requestRef' = f.chain
         /\ frames' = frames
         /\ IF ~ready
            THEN /\ op' = "frame:novideo"
                 /\ UNCHANGED <<history, wasTapped, runLen, runTaps>>
            ELSE LET did == Tap_Detection(f.cap, results)
                 IN  /\ history' = (IF did = "tap" THEN Append(history, now)
                                                   ELSE history)
                     /\ wasTapped' = (IF did = "tap" THEN TRUE
                                      ELSE IF did = "release" THEN FALSE
                                      ELSE wasTapped)
                     /\ op' = Tap_FrameOp(did, results)
                     /\ ObserveRun(results, did = "tap")

Tap2_Frame ==
    \E f \in frames, ready \in BOOLEAN, results \in HandResults :
        /\ component = "FingerTapTest (buttons)"
        /\ Len(history) < MaxHistory
        /\ Tap2_predictWebcam(f, ready, results)
        /\ UNCHANGED <<pureVars, draftVars, cameraVars, component,
                       isWebcamEnabled, isTestRunning, timeLeft, testResults,
                       chartData, targetPosition, testTimeoutRef,
                       targetAnimationRef, mounted, landmarker, gum, srcObject,
                       loadedHandler, loadedPending, targetFrame,
                       orphanTimeouts, zeroEffect, now, clicks>>

\* predictWebcam, the callback f of a chain, when detectForVideo throws.
Tap2_FrameThrows ==
    \E f \in frames :
        /\ component = "FingerTapTest (buttons)"
        /\ DetectorThrows(f)

\* The Start button: shown with isWebcamEnabled, disabled={isTestRunning}.
Tap2_StartButton == mounted /\ isWebcamEnabled /\ ~isTestRunning

\* handleStartTest.
Tap2_handleStartTest ==
    /\ history' = <<>>
    /\ testResults' = Null
    /\ isTestRunning' = TRUE
    /\ runLen' = 0
    /\ runTaps' = 0
    /\ op' = "start"
    /\ UNCHANGED <<pureVars, draftVars, cameraVars, component,
                   isWebcamEnabled, timeLeft, chartData, wasTapped,
                   targetPosition, refVars, hostVars>>

Tap2_StartClick ==
    /\ component = "FingerTapTest (buttons)"
    /\ mounted
    /\ IF Tap2_StartButton
       THEN Tap2_handleStartTest
       ELSE /\ op' = "start:rejected"
            /\ UNCHANGED <<pureVars, draftVars, cameraVars, component,
                           stateVars, refVars, hostVars, runLen, runTaps>>

\* The Stop button (disabled={!isTestRunning}): handleStopTest.
Tap2_handleStopTest ==
    /\ component = "FingerTapTest (buttons)"
    /\ mounted /\ isWebcamEnabled /\ isTestRunning
    /\ isTestRunning' = FALSE
    /\ testResults' = (IF Len(history) > 1 THEN analyzeTapData(history)
                                           ELSE testResults)
    /\ runLen' = 0
    /\ runTaps' = 0
    /\ op' = "stop:click"
    /\ UNCHANGED <<pureVars, draftVars, cameraVars, component,
                   isWebcamEnabled, timeLeft, history, chartData, wasTapped,
                   targetPosition, refVars, hostVars>>

\* The unmount cleanup: it cancels the frame request and nothing else.
Tap2_Unmount ==
    /\ component = "FingerTapTest (buttons)"
    /\ mounted
    /\ mounted' = FALSE
    /\ frames' = CancelledFrames
    /\ op' = "unmount"
    /\ UNCHANGED <<pureVars, draftVars, cameraVars, component, stateVars,
                   refVars, landmarker, gum, srcObject, loadedHandler,
                   loadedPending, targetFrame, orphanTimeouts, zeroEffect,
                   now, clicks, runLen, runTaps>>

InitTap2 == Mounted("FingerTapTest (buttons)")

NextTap2 ==
    \/ LandmarkerLoads
    \/ ClockTick
    \/ Tap2_EnableClick
    \/ Tap2_StreamGranted
    \/ Tap2_StreamDenied
    \/ Tap2_LoadedData
    \/ Tap2_StartClick
    \/ Tap2_handleStopTest
    \/ Tap2_Frame
    \/ Tap2_FrameThrows
    \/ Tap2_Unmount

SpecTap2 == InitTap2 /\ [][NextTap2]_vars

InitSession ==
    \E c \in {"FingerTapTest", "EyeTrackingTest (timed)", "EyeTrackingTest"} :
        Mounted(c)

NextSession == NextTap \/ NextEye \/ NextEyeShipped

SpecSession == InitSession /\ [][NextSession]_vars

(***************************************************************************)
(* handleStopTest on its own: the updater of the timed eye-tracking test   *)
(* (part_003 78-103) and of the timed finger-tap test (FingerTapTest.tsx   *)
(* 360-381) applied once to every history of at most MaxHistory samples    *)
(* and every timestamp array of at most MaxTaps entries.  arg is the       *)
(* history and ret the results and the chart the updater sets.             *)
(***************************************************************************)
\* The gaze of a sample: none, the centre, or a point to its right.
Stop_Gazes == {Null, [x |-> 500, y |-> 500], [x |-> 850, y |-> 500]}

Stop_Samples ==
    {[timestamp |-> t, target |-> TargetAt(Eye_Radius, t), gaze |-> g] :
        t \in 0..MaxNow, g \in Stop_Gazes}

Stop_GazeHistories == UNION {[1..n -> Stop_Samples] : n \in 0..MaxHistory}

\* The histories of EyeTrackingTest.tsx: predictWebcam appends a sample only
\* under if (gaze.average) (lines 45-52).
Stop_ShippedSamples ==
    {[timestamp |-> t, target |-> TargetAt(EyeS_Radius, t), gaze |-> g] :
        t \in 0..MaxNow, g \in Stop_Gazes \ {Null}}

Stop_ShippedHistories == UNION {[1..n -> Stop_ShippedSamples] : n \in 0..MaxHistory}

InitStop ==
    /\ \/ pc = "stop:eye" /\ arg \in Stop_GazeHistories
       \/ pc = "stop:shipped" /\ arg \in Stop_ShippedHistories
       \/ pc = "stop:tap" /\ arg \in TimestampArrays
    /\ ret = Null
    /\ NoSession

Stop_Eye ==
    /\ pc = "stop:eye"
    /\ ret' = [testResults |-> Eye_Results(arg), chartData |-> Eye_ChartData(arg)]
    /\ pc' = "finished:eye"
    /\ UNCHANGED <<arg, sessionVars>>

\* handleStopTest of EyeTrackingTest.tsx (81-95): results for a history that
\* is not empty, and no chart.
Stop_Shipped ==
    /\ pc = "stop:shipped"
    /\ ret' = [testResults |-> IF Len(arg) > 0 THEN EyeS_Results(arg) ELSE Null,
               chartData |-> Null]
    /\ pc' = "finished:shipped"
    /\ UNCHANGED <<arg, sessionVars>>

Stop_Tap ==
    /\ pc = "stop:tap"
    /\ ret' = [testResults |-> Tap_Results(arg), chartData |-> Tap_ChartData(arg)]
    /\ pc' = "finished:tap"
    /\ UNCHANGED <<arg, sessionVars>>

NextStop == Stop_Eye \/ Stop_Shipped \/ Stop_Tap

SpecStop == InitStop /\ [][NextStop]_vars

(***************************************************************************)
(* EyeTrackingTest.tsx, the sampling on its own: predictWebcam (25-57) for *)
(* frame callbacks of any closure, beside the session they run in.  arg is *)
(* the state of the latest render (the running flag, the target position   *)
(* and the clock), ret the gaze history and the results.                   *)
(***************************************************************************)
Loop_Initial == [gazeHistory |-> <<>>, testResults |-> Null]

\* The closures a frame callback can hold: any running flag, and the target
\* position of the first render or the one of the latest render.
Loop_Closures ==
    {[isTestRunning |-> r, wasTapped |-> FALSE, targetPosition |-> p] :
        r \in BOOLEAN, p \in {InitialTarget, arg.targetPosition}}

InitLoop ==
    /\ pc = "loop"
    /\ arg = [isTestRunning |-> FALSE, targetPosition |-> InitialTarget, time |-> 0]
    /\ ret = Loop_Initial
    /\ NoSession

\* handleStartTest (75-79).
Loop_Start ==
    /\ pc = "loop"
    /\ ~arg.isTestRunning
    /\ arg' = [arg EXCEPT !.isTestRunning = TRUE]
    /\ ret' = [gazeHistory |-> <<>>, testResults |-> Null]
    /\ UNCHANGED <<pc, sessionVars>>

\* animateTarget (100-104), a step of the clock later.
Loop_Target ==
    /\ pc = "loop"
    /\ arg.isTestRunning
    /\ arg.time < MaxNow
    /\ arg' = [arg EXCEPT !.time = @ + 1,
                          !.targetPosition = TargetAt(EyeS_Radius, arg.time + 1)]
    /\ UNCHANGED <<pc, ret, sessionVars>>

\* predictWebcam with a ready video (34-55).
Loop_Frame ==
    \E cap \in Loop_Closures, results \in FaceResults :
        /\ pc = "loop"
        /\ Len(ret.gazeHistory) < MaxHistory
        /\ Eye_Detection(cap, results)
        /\ ret' = [ret EXCEPT !.gazeHistory =
                      Append(@, [GazeSample(cap, results) EXCEPT !.timestamp = arg.time])]
        /\ UNCHANGED <<pc, arg, sessionVars>>

\* handleStopTest (81-95).
Loop_Stop ==
    /\ pc = "loop"
    /\ arg.isTestRunning
    /\ arg' = [arg EXCEPT !.isTestRunning = FALSE]
    /\ ret' = [ret EXCEPT !.testResults =
                  IF Len(ret.gazeHistory) > 0 THEN EyeS_Results(ret.gazeHistory) ELSE @]
    /\ UNCHANGED <<pc, sessionVars>>

NextLoop == Loop_Start \/ Loop_Target \/ Loop_Frame \/ Loop_Stop

SpecLoop == InitLoop /\ [][NextLoop]_vars

(***************************************************************************)
(* FingerTapTest, the movement draft (part_008): the tap detection of      *)
(* predictWebcam.  Its handleStartTest and handleStopTest are not in the   *)
(* draft, so the detection is followed frame by frame on its own: arg      *)
(* holds the frames processed so far and ret the detector's refs and the   *)
(* tapTimestamps state.  A frame says what its callback sees: whether the  *)
(* video is ready, the isTestRunning of its closure, the detector result   *)
(* and Date.now().  Landmark y coordinates are in units of 1/VIDEO_HEIGHT, *)
(* so that tipY is a whole number of pixels.                               *)
(***************************************************************************)
\* Frames processed in a run of the detection.
MaxFrames == 3

VIDEO_HEIGHT == 480
MOVEMENT_THRESHOLD_PIXELS == 10
DEBOUNCE_TIME_MS == 200

\* Date.now() is milliseconds since 1970: far above DEBOUNCE_TIME_MS.  It is
\* not monotonic.
Move_Times == {1000, 1200, 1201}
\* indexTip.y of the frames with an index tip.
Move_TipYs == {100, 110, 150}

\* results.landmarks of one frame: no hand, a hand without landmark 8, or a
\* hand with it.
Move_HandResults ==
    {<<>>, <<[indexTip |-> Null]>>}
        \cup {<<[indexTip |-> [y |-> y]]>> : y \in Move_TipYs}

Move_Frames ==
    {[ready |-> FALSE, isTestRunning |-> FALSE, landmarks |-> <<>>, time |-> t] :
        t \in Move_Times}
    \cup {[ready |-> TRUE, isTestRunning |-> FALSE, landmarks |-> <<>>, time |-> t] :
        t \in Move_Times}
    \cup {[ready |-> TRUE, isTestRunning |-> TRUE, landmarks |-> l, time |-> t] :
        l \in Move_HandResults, t \in Move_Times}

\* lastFingerTipY = useRef(null), lastTapTime = useRef(0), tapTimestamps = [].
Move_Initial ==
    [lastFingerTipY |-> Null, lastTapTime |-> 0, tapTimestamps |-> <<>>]

\* A tap whatever the movement is.
Move_TappedNoThreshold(state, tipY, currentTime) ==
    /\ state.lastFingerTipY # Null
    /\ currentTime - state.lastTapTime > DEBOUNCE_TIME_MS

\* A tap whatever the time since the last one is.
Move_TappedNoDebounce(state, tipY, currentTime) ==
    /\ state.lastFingerTipY # Null
    /\ Abs(tipY - state.lastFingerTipY.value) > MOVEMENT_THRESHOLD_PIXELS

\* The frame registers a tap (lines 68-72).
Move_Tapped(state, tipY, currentTime) ==
    /\ state.lastFingerTipY # Null
    /\ Abs(tipY - state.lastFingerTipY.value) > MOVEMENT_THRESHOLD_PIXELS
    /\ currentTime - state.lastTapTime > DEBOUNCE_TIME_MS

\* const tipY = indexTip.y * canvasRef.current.height
Move_TipY(indexTip) == (indexTip.y * VIDEO_HEIGHT) \div VIDEO_HEIGHT

\* predictWebcam from its readyState test on (lines 58-83).
Move_predictWebcam(state, frame) ==
    IF ~frame.ready
    THEN state
    ELSE IF frame.isTestRunning /\ Len(frame.landmarks) > 0
         THEN LET indexTip == frame.landmarks[1].indexTip
              IN  IF indexTip # Null
                  THEN LET tipY == Move_TipY(indexTip)
                           tapped == Move_Tapped(state, tipY, frame.time)
                       IN  [lastFingerTipY |-> [value |-> tipY],
                            lastTapTime |->
                                IF tapped THEN frame.time ELSE state.lastTapTime,
                            tapTimestamps |->
                                IF tapped
                                THEN Append(state.tapTimestamps, frame.time)
                                ELSE state.tapTimestamps]
                  ELSE state
         ELSE IF ~frame.isTestRunning
              THEN [state EXCEPT !.lastFingerTipY = Null]
              ELSE state

InitMove ==
    /\ pc = "frames"
    /\ arg = <<>>
    /\ ret = Move_Initial
    /\ NoSession

Move_Frame ==
    \E frame \in Move_Frames :
        /\ pc = "frames"
        /\ Len(arg) < MaxFrames
        /\ arg' = Append(arg, frame)
        /\ ret' = Move_predictWebcam(ret, frame)
        /\ UNCHANGED <<pc, sessionVars>>

NextMove == Move_Frame

SpecMove == InitMove /\ [][NextMove]_vars

(***************************************************************************)
(* FingerTapTest, the proximity strategy (FingerTapTest.tsx 328-349): the  *)
(* tap detection of predictWebcam on its own, for frame callbacks of any   *)
(* closure.  arg is the last frame, ret the tapped flag and the timestamps. *)
(***************************************************************************)
\* A frame callback: the video is ready or not, the isTestRunning and
\* wasTapped of its closure, the detector result, and performance.now().
Prox_Frames ==
    {[ready |-> FALSE, cap |-> [isTestRunning |-> FALSE, wasTapped |-> FALSE],
      landmarks |-> <<>>, time |-> t] : t \in Move_Times}
    \cup {[ready |-> TRUE, cap |-> [isTestRunning |-> r, wasTapped |-> w],
           landmarks |-> l, time |-> t] :
             r \in BOOLEAN, w \in BOOLEAN, l \in HandResults, t \in Move_Times}

\* wasTapped = useState(false), tapTimestamps = useState([]).
Prox_Initial == [wasTapped |-> FALSE, tapTimestamps |-> <<>>]

\* predictWebcam from its readyState test on (lines 328-349).
Prox_predictWebcam(state, frame) ==
    IF ~frame.ready
    THEN state
    ELSE LET did == Tap_Detection(frame.cap, frame.landmarks)
         IN  [wasTapped |-> IF did = "tap" THEN TRUE
                            ELSE IF did = "release" THEN FALSE
                            ELSE state.wasTapped,
              tapTimestamps |-> IF did = "tap"
                                THEN Append(state.tapTimestamps, frame.time)
                                ELSE state.tapTimestamps]

InitProx ==
    /\ pc = "proximity"
    /\ arg = Null
    /\ ret = Prox_Initial
    /\ NoSession

\* The next frame callback; the clock does not go back.
Prox_Frame ==
    \E frame \in Prox_Frames :
        /\ pc = "proximity"
        /\ Len(ret.tapTimestamps) < MaxFrames
        /\ arg # Null => frame.time >= arg.time
        /\ arg' = frame
        /\ ret' = Prox_predictWebcam(ret, frame)
        /\ UNCHANGED <<pc, sessionVars>>

NextProx == Prox_Frame

SpecProx == InitProx /\ [][NextProx]_vars

\* The two tap strategies side by side.
SpecDetect == (InitMove \/ InitProx) /\ [][NextMove \/ NextProx]_vars

(***************************************************************************)
(* Claims about analyzeTapData.                                            *)
(***************************************************************************)
\* C6: for every timestamp array of length 0 or 1, analyzeTapData returns
\* totalTaps equal to the length, and tapsPerSecond, averageTimeBetweenTaps
\* and consistency all 0.
C6_ShortArraysGiveZeros ==
    (pc = "done" /\ Len(arg) < 2) =>
        /\ ret.totalTaps = Len(arg)
        /\ ret.tapsPerSecond = Finite(0)
        /\ ret.averageTimeBetweenTaps = 0
        /\ ret.consistency = 0

\* A single tap has been analysed.
C6_Witness == pc = "done" /\ Len(arg) = 1 /\ ret.totalTaps = 1

\* C7: for every array of length >= 2 whose first and last timestamps are
\* equal (a duration of 0 s), analyzeTapData reports tapsPerSecond = 0,
\* not Infinity or NaN.
C7_ZeroDurationReportsZero ==
    (pc = "done" /\ Len(arg) >= 2 /\ arg[1] = arg[Len(arg)]) =>
        ret.tapsPerSecond = Finite(0)

\* Whether a * a <= 40000 * m, for a, m >= 0, without forming either
\* product: a = 200 * q + r.
C8_SqLe40000(a, m) ==
    LET q == a \div 200
        r == a % 200
    IN  IF q * q > m THEN FALSE
        ELSE IF m - q * q > 2 * q + 1 THEN TRUE
        ELSE 400 * q * r + r * r <= 40000 * (m - q * q)

C8_IsOrdered(ts) == \A i \in 1..(Len(ts) - 1) : ts[i] <= ts[i + 1]

RECURSIVE C8_SumSq(_, _)
C8_SumSq(ts, i) ==
    IF i >= Len(ts) THEN 0
    ELSE (ts[i + 1] - ts[i]) * (ts[i + 1] - ts[i]) + C8_SumSq(ts, i + 1)

\* C8: for every ordered array of n >= 2 timestamps with last > first,
\* totalTaps = n, tapsPerSecond = n / ((last - first) / 1000),
\* averageTimeBetweenTaps = the mean of the n - 1 intervals and consistency =
\* their population standard deviation, each within half a hundredth (rounded
\* to 2 decimals); [0,500,1000,1500] gives 4, 2.67, 500, 0 and [0,400,1100]
\* gives 3, 2.73, 550, 150.
C8_OrderedStatistics ==
    (pc = "done" /\ Len(arg) >= 2 /\ C8_IsOrdered(arg) /\ arg[Len(arg)] > arg[1]) =>
        LET n == Len(arg)
            k == n - 1
            dur == arg[n] - arg[1]
            Q == k * C8_SumSq(arg, 1) - dur * dur
            c == ret.consistency
        IN  /\ ret.totalTaps = n
            /\ ret.tapsPerSecond.kind = "finite"
            /\ 2 * Abs(ret.tapsPerSecond.hund * dur - 100000 * n) <= dur
            /\ 2 * Abs(ret.averageTimeBetweenTaps * k - 100 * dur) <= k
            /\ c >= 0
            /\ (c = 0 \/ C8_SqLe40000((2 * c - 1) * k, Q))
            /\ ~C8_SqLe40000((2 * c + 1) * k, Q)
            /\ (arg = <<0, 500, 1000, 1500>> =>
                    ret = [totalTaps |-> 4, tapsPerSecond |-> Finite(267),
                           averageTimeBetweenTaps |-> 50000, consistency |-> 0])
            /\ (arg = <<0, 400, 1100>> =>
                    ret = [totalTaps |-> 3, tapsPerSecond |-> Finite(273),
                           averageTimeBetweenTaps |-> 55000, consistency |-> 15000])

\* The second worked example has been analysed, with its uneven intervals.
C8_Witness == pc = "done" /\ arg = <<0, 400, 1100>> /\ ret.consistency = 15000

(***************************************************************************)
(* Claims about calculateGazePosition.                                     *)
(***************************************************************************)
C9_Holds(landmarks, indices) == \A index \in indices : index \in DOMAIN landmarks

\* C9: for every landmark set, average is null iff one of the ten iris
\* indices 468..477 is absent; left (right) is null iff one of its own five
\* indices 473..477 (468..472) is absent; and when both are present, average
\* is the midpoint of the two eye centres.
C9_AverageNullIffIrisMissing ==
    pc = "done" =>
        /\ (ret.average = Null) <=> ~C9_Holds(arg, 468..477)
        /\ (ret.left = Null) <=> ~C9_Holds(arg, 473..477)
        /\ (ret.right = Null) <=> ~C9_Holds(arg, 468..472)
        /\ C9_Holds(arg, 468..477) =>
                /\ 2 * ret.average.x = ret.left.x + ret.right.x
                /\ 2 * ret.average.y = ret.left.y + ret.right.y

\* A face with its left iris complete and a right iris landmark missing has
\* been measured: the left centre is known and the average is null.
C9_Witness ==
    /\ pc = "done"
    /\ C9_Holds(arg, 473..477)
    /\ ~C9_Holds(arg, 468..472)
    /\ ret.left # Null
    /\ ret.average = Null

(***************************************************************************)
(* Claims about the finger-tap session (SpecTap).                          *)
(***************************************************************************)
\* C2: going for Start while the test is running changes nothing: the test
\* is still running, the history and the results are what they were, the
\* countdown is not restarted and no second auto-stop timeout is armed.
C2_SecondStartIsNoOp ==
    [][(isTestRunning /\ op' \in {"start", "start:rejected"})
         => /\ isTestRunning'
            /\ UNCHANGED <<history, testResults, chartData, timeLeft,
                           testTimeoutRef, orphanTimeouts>>]_vars

\* C2: a Start attempt was made while the test was running, with the
\* auto-stop timeout of the first Start still armed.
C2_Witness ==
    op = "start:rejected" /\ isTestRunning /\ testTimeoutRef = "armed"

\* C10: in a run of consecutive frames of a running test with the thumb-index
\* distance below TAP_THRESHOLD, at most one timestamp is appended.
C10_AtMostOneTapPerRun == runTaps <= 1

\* C10: the test is running and two or more consecutive frames with the
\* distance below TAP_THRESHOLD have been processed.
C10_Witness == isTestRunning /\ runLen >= 2 /\ op = "frame:detect"

(***************************************************************************)
(* Claims about the sessions of the components.                            *)
(***************************************************************************)
\* C1: results exist exactly when the session is finished: while the test
\* runs there are none, every step that stops a running test leaves results
\* that are not null (whatever the history holds), and while no test runs
\* results neither appear nor disappear.
C1_ResultsIffFinished ==
    [][/\ isTestRunning' => testResults' = Null
       /\ (isTestRunning /\ ~isTestRunning') => testResults' # Null
       /\ (~isTestRunning /\ ~isTestRunning')
            => (testResults' = Null <=> testResults = Null)]_vars

\* C3: while no test is running nothing but Start changes the history, and
\* while a test is running every change of the history adds exactly one
\* entry at its end.
C3_AppendOnly ==
    [][/\ (~isTestRunning /\ op' # "start") => history' = history
       /\ isTestRunning
            => \/ history' = history
               \/ /\ Len(history') = Len(history) + 1
                  /\ SubSeq(history', 1, Len(history)) = history]_vars

\* C3: a session has finished (its results are set) and a frame callback has
\* run the detector since.
C3_Witness == ~isTestRunning /\ testResults # Null /\ op = "frame:detect"

\* C4: once the component is unmounted (its frame request cancelled), a
\* frame callback that still fires neither calls the detector nor appends
\* to the history.
C4_NoWorkAfterTeardown ==
    [][~mounted => /\ history' = history
                   /\ op' \notin DetectionOps]_vars

\* C4: a frame callback has fired after the unmount.
C4_Witness == ~mounted /\ op = "frame:unready"

\* C5: stopping a running eye-tracking test whose history holds no sample
\* with a gaze leaves results with trackingScore 0 and pointsCollected 0.
C5_NoSamplesGiveZeroScore ==
    [][(isTestRunning /\ ~isTestRunning' /\ ValidPoints(history) = 0)
         => /\ testResults' # Null
            /\ testResults'.trackingScore = Finite(0)
            /\ testResults'.pointsCollected = 0]_vars

(***************************************************************************)
(* Claims about the movement detection (SpecMove).                         *)
(***************************************************************************)
\* The frames are all ready frames of a running test with an index tip.
C11_AllTips(fs) ==
    \A i \in 1..Len(fs) :
        /\ fs[i].ready /\ fs[i].isTestRunning
        /\ Len(fs[i].landmarks) > 0
        /\ fs[i].landmarks[1].indexTip # Null

\* The fingertip Y values of such frames, in pixels.
C11_TipYs(fs) ==
    [i \in 1..Len(fs) |-> fs[i].landmarks[1].indexTip.y]

\* The frame before the last one of fs in which an index tip was seen
\* while the test was running, with no ready frame of a stopped test since;
\* 0 if there is none.
C11_Previous(fs) ==
    LET n == Len(fs)
        seen == {i \in 1..(n - 1) :
                    /\ fs[i].ready /\ fs[i].isTestRunning
                    /\ Len(fs[i].landmarks) > 0
                    /\ fs[i].landmarks[1].indexTip # Null
                    /\ \A j \in (i + 1)..(n - 1) :
                          ~(fs[j].ready /\ ~fs[j].isTestRunning)}
    IN  IF seen = {} THEN 0 ELSE CHOOSE i \in seen : \A j \in seen : j <= i

\* C11: fingertip Y values 100, 100, 100 register no tap; 100, 100, 150
\* register exactly one; frames that all lie within the debounce interval
\* register at most one; and a frame registers a tap only if its fingertip
\* moved more than MOVEMENT_THRESHOLD_PIXELS since the frame before and more
\* than DEBOUNCE_TIME_MS have passed since the last registered tap.
C11_MovementTaps ==
    [][LET fs == arg'
           frame == fs[Len(fs)]
           taps == ret'.tapTimestamps
           previous == C11_Previous(fs)
       IN  /\ (C11_AllTips(fs) /\ C11_TipYs(fs) = <<100, 100, 100>>)
                => Len(taps) = 0
           /\ (C11_AllTips(fs) /\ C11_TipYs(fs) = <<100, 100, 150>>)
                => Len(taps) = 1
           /\ (\A i, j \in 1..Len(fs) :
                    fs[i].time - fs[j].time <= DEBOUNCE_TIME_MS)
                => Len(taps) <= 1
           /\ Len(taps) > Len(ret.tapTimestamps)
                => /\ C11_AllTips(<<frame>>)
                   /\ previous # 0
                   /\ Abs(C11_TipYs(<<frame>>)[1] - C11_TipYs(fs)[previous])
                        > MOVEMENT_THRESHOLD_PIXELS
                   /\ \/ ret.tapTimestamps = <<>>
                      \/ frame.time - ret.tapTimestamps[Len(ret.tapTimestamps)]
                            > DEBOUNCE_TIME_MS]_vars

\* C11: the frames 100, 100, 150 of a running test have been processed and
\* one tap is registered.
C11_Witness ==
    /\ pc = "frames"
    /\ Len(arg) = 3
    /\ C11_AllTips(arg)
    /\ C11_TipYs(arg) = <<100, 100, 150>>
    /\ Len(ret.tapTimestamps) = 1

\* C12: the recorded tap timestamps are strictly increasing and consecutive
\* ones are at least DEBOUNCE_TIME_MS apart.
C12_TapsApart ==
    pc = "frames" =>
        \A i \in 1..(Len(ret.tapTimestamps) - 1) :
            /\ ret.tapTimestamps[i] < ret.tapTimestamps[i + 1]
            /\ ret.tapTimestamps[i + 1] - ret.tapTimestamps[i] >= DEBOUNCE_TIME_MS

\* C12: two taps have been recorded.
C12_Witness == pc = "frames" /\ Len(ret.tapTimestamps) >= 2

(***************************************************************************)
(* Claims about the timers and the teardown of the components.             *)
(***************************************************************************)
\* C13: a test that is running stops by itself (the user does nothing more):
\* from every state with the test running, a state with the test stopped
\* and its results set is reached, unless the component is unmounted first.
C13_StopsByItself ==
    isTestRunning ~> ((~isTestRunning /\ testResults # Null) \/ ~mounted)


C16_NoLiveStreamAfterTeardown == ~mounted => liveStreams = 0

\* C17: handleStopTest called while no test runs (the timeout and the
\* countdown reaching 0 both stop one session) changes neither the running
\* flag, the time left, the history, the results nor the chart.
C17_StopWhenNotRunningChangesNothing ==
    [][(/\ ~isTestRunning
        /\ op' \in {"stop:countdown", "stop:timeout", "stop:again"})
           => UNCHANGED <<isTestRunning, timeLeft, history, testResults,
                          chartData>>]_vars

\* The countdown effect has called handleStopTest after the timeout had
\* already stopped the test.
C17_Witness ==
    /\ component = "FingerTapTest"
    /\ op = "stop:again"
    /\ ~isTestRunning
    /\ testResults # Null

\* C18: stopping a finger-tap test with fewer than 2 taps recorded sets
\* results with totalTaps the number of taps and the three rates 0; the
\* results are not left absent.
C18_FewTapsGiveZeroRates ==
    (/\ component \in {"FingerTapTest", "FingerTapTest (buttons)"}
     /\ mounted
     /\ op \in {"stop:click", "stop:countdown", "stop:timeout", "stop:again"}
     /\ Len(history) < 2)
        => testResults = [totalTaps |-> Len(history),
                          tapsPerSecond |-> Finite(0),
                          averageTimeBetweenTaps |-> 0, consistency |-> 0]

\* C19: the target depends on the time elapsed since Start only: when Start
\* has just been clicked (elapsed time 0) the target is at
\* (0.5 + radius, 0.5), whatever the clock shows.
C19_TargetAtStart ==
    (component = "EyeTrackingTest" /\ op = "start")
        => targetPosition = TargetAt(EyeS_Radius, 0)

\* C20: every invocation of the frame callback, the early return for a
\* missing element, canvas, detector or stream included, leaves the next
\* frame callback of its chain scheduled.
C20_FrameReschedules ==
    [][op' \in FrameOps
          => frames \subseteq frames']_vars

(***************************************************************************)
(* Claims about the frame callback and the detector.                       *)
(***************************************************************************)
\* C21: when the detector throws in a frame callback, the callback appends
\* nothing, changes no state of the session and still leaves the next frame
\* of its chain scheduled.
C21_ThrowKeepsLoop ==
    [][op' = "frame:throws"
          => (/\ UNCHANGED <<stateVars>>
              /\ frames \subseteq frames')]_vars

\* C22: while an eye-tracking test runs, every frame callback whose detector
\* result holds a face appends exactly one sample to the history, with the
\* gaze or with a null gaze.
C22_EveryFaceFrameAppends ==
    [][(/\ component = "EyeTrackingTest"
        /\ isTestRunning
        /\ op' \in {"frame:detect", "frame:append"})
           => Len(history') = Len(history) + 1]_vars

\* C23: at most one frame callback is scheduled at any time, whatever the
\* order of the Enable Webcam clicks, the loadeddata events and the Start
\* clicks.
C23_AtMostOneChain == Cardinality(frames) <= 1

\* C24: a frame on which the fingertip landmark is absent (no hand, fewer
\* than 9 landmarks, no index tip) appends no tap, in either strategy.
C24_NoTip(landmarks) ==
    \/ Len(landmarks) = 0
    \/ landmarks[1].indexTip = Null

C24_NoTapWithoutFingertip ==
    [][/\ (pc = "proximity" /\ C24_NoTip(arg'.landmarks))
            => ret'.tapTimestamps = ret.tapTimestamps
       /\ (pc = "frames" /\ C24_NoTip(arg'[Len(arg')].landmarks))
            => ret'.tapTimestamps = ret.tapTimestamps]_vars

\* Frames of a running test without the fingertip have been processed, in
\* either strategy, after a tap was appended.
C24_Witness ==
    \/ /\ pc = "proximity"
       /\ arg # Null /\ arg.ready /\ arg.cap.isTestRunning
       /\ arg.landmarks = <<ShortHand>>
       /\ Len(ret.tapTimestamps) > 0
    \/ /\ pc = "frames"
       /\ Len(arg) > 1
       /\ arg[Len(arg)].isTestRunning
       /\ arg[Len(arg)].landmarks = <<[indexTip |-> Null]>>
       /\ ret.lastFingerTipY # Null

C26_StartResetsAll ==
    [][(/\ component \in {"FingerTapTest", "EyeTrackingTest (timed)"}
        /\ op' = "start")
         => (/\ ~isTestRunning
             /\ isTestRunning'
             /\ history' = <<>>
             /\ testResults' = Null
             /\ chartData' = Null
             /\ timeLeft' = 10)]_vars

\* C26: a test has just been started and is running with the full countdown.
C26_Witness ==
    /\ component \in {"FingerTapTest", "EyeTrackingTest (timed)"}
    /\ op = "start"
    /\ isTestRunning
    /\ timeLeft = TEST_DURATION \div 1000

\* C27: a frame on which the detector returns no landmark set appends
\* nothing, changes no state of the session (the tapped flag included) and
\* leaves every frame callback that was scheduled, its own chain's next one
\* included, scheduled.
C27_EmptyResultChangesNothing ==
    [][op' = "frame:empty"
         => (/\ UNCHANGED <<stateVars>>
             /\ frames \subseteq frames')]_vars

\* C27: a test is running, the detector has just returned no landmark set
\* and the frame loop goes on.
C27_Witness == op = "frame:empty" /\ isTestRunning /\ frames # {}

C29_NothingScheduledAfterTeardown ==
    [][/\ ~mounted' => (/\ frames' = {}
                        /\ ~targetFrame'
                        /\ testTimeoutRef' # "armed"
                        /\ orphanTimeouts' = 0)
       /\ ~mounted => UNCHANGED <<stateVars>>]_vars

(***************************************************************************)
(* Claims about the chart.                                                 *)
(***************************************************************************)
\* The samples of the history handed to the updater that have a gaze.
C30_GazeIndices == {i \in 1..Len(arg) : arg[i].gaze # Null}

\* C30: the chart handleStopTest sets holds, for the eye-tracking test, a
\* target path with the target of every sample of the history in order and
\* a gaze path with the gaze of every sample that has one, in order, as
\* many as pointsCollected; for the finger-tap test, an interval series of
\* totalTaps - 1 entries.
C30_ChartSeriesFollowHistory ==
    /\ (pc = "finished:eye" /\ ret.chartData # Null)
         => LET target == ret.chartData.datasets[1].data
                gaze == ret.chartData.datasets[2].data
            IN  /\ Len(target) = Len(arg)
                /\ \A i \in 1..Len(arg) : target[i] = arg[i].target
                /\ Len(gaze) = ret.testResults.pointsCollected
                /\ Len(gaze) = Cardinality(C30_GazeIndices)
                /\ \A j \in 1..Len(gaze) :
                       \E i \in C30_GazeIndices :
                           /\ Cardinality({k \in C30_GazeIndices : k <= i}) = j
                           /\ gaze[j] = arg[i].gaze
    /\ (pc = "finished:tap" /\ ret.chartData # Null)
         => Len(ret.chartData.data) = ret.testResults.totalTaps - 1

\* C30: a chart was set for a history in which a sample without a gaze comes
\* before one with a gaze, or for three taps or more.
C30_Witness ==
    \/ /\ pc = "finished:eye"
       /\ ret.chartData # Null
       /\ Len(arg) >= 2
       /\ arg[1].gaze = Null
       /\ arg[2].gaze # Null
    \/ /\ pc = "finished:tap"
       /\ ret.chartData # Null
       /\ Len(arg) >= 3

(***************************************************************************)
(* Claims about the eye-tracking results.                                  *)
(***************************************************************************)
\* The K of the handleStopTest that was applied.
C31_K == IF pc = "finished:shipped" THEN EyeS_K ELSE Eye_K

\* C31: for every history, the results handleStopTest sets have a
\* trackingScore from 0 to 100, a pointsCollected that is the number of
\* samples with a gaze (at most the length of the history), and a score that
\* is 100 - K * (total distance / pointsCollected), floored at 0 and rounded
\* to a hundredth, whenever a sample has a gaze.
C31_ScoreInRangeOfAverageError ==
    (pc \in {"finished:eye", "finished:shipped"} /\ ret.testResults # Null)
        => LET score == ret.testResults.trackingScore
               points == ret.testResults.pointsCollected
               total == TotalDistance(arg)
           IN  /\ score.kind = "finite"
               /\ score.hund >= 0 /\ score.hund <= 10000
               /\ points = Cardinality({i \in 1..Len(arg) : arg[i].gaze # Null})
               /\ points <= Len(arg)
               /\ (points > 0 /\ score.hund > 0)
                    => 2 * Abs((10000 - score.hund) * points * 10 - total * C31_K)
                         <= points * 10
               /\ (points > 0 /\ score.hund = 0)
                    => 2 * total * C31_K >= 2 * 10000 * points * 10 - points * 10

\* C31: results were set for a history in which some sample, not every one,
\* has a gaze, with a score strictly between 0 and 100; or the score of a
\* history of the shipped component was floored at 0.
C31_Witness ==
    \/ /\ pc = "finished:eye"
       /\ ret.testResults.pointsCollected > 0
       /\ ret.testResults.pointsCollected < Len(arg)
       /\ ret.testResults.trackingScore.hund > 0
       /\ ret.testResults.trackingScore.hund < 10000
    \/ /\ pc = "finished:shipped"
       /\ ret.testResults # Null
       /\ ret.testResults.trackingScore.hund = 0

\* C32: in EyeTrackingTest.tsx every sample of the gaze history has a gaze,
\* so the samples with a gaze are as many as the history is long and the
\* results handleStopTest sets never hold the NaN of a division of 0 by 0.
C32_EverySampleHasGaze ==
    pc = "loop"
        => /\ \A i \in 1..Len(ret.gazeHistory) : ret.gazeHistory[i].gaze # Null
           /\ ValidPoints(ret.gazeHistory) = Len(ret.gazeHistory)
           /\ ret.testResults # Null => ret.testResults.trackingScore # NaN

\* C32: a test with two samples or more was stopped and has results.
C32_Witness ==
    /\ pc = "loop"
    /\ ~arg.isTestRunning
    /\ Len(ret.gazeHistory) >= 2
    /\ ret.testResults # Null

C34_StopOps == {"stop:countdown", "stop:timeout", "stop:again"}

\* What C34 says of one step of a timed component.
C34_Step ==
    /\ timeLeft' \in 0..10
    /\ (isTestRunning /\ isTestRunning') => timeLeft' <= timeLeft
    /\ op' = "tick" => (timeLeft' >= 0 /\ timeLeft' = timeLeft - 1)
    /\ (op' \in C34_StopOps /\ mounted) => timeLeft' = 0
    /\ (mounted' /\ isTestRunning' /\ timeLeft' = 0) => zeroEffect'
    /\ (zeroEffect /\ ~zeroEffect')
         => (op' \in {"stop:countdown", "stop:again"} /\ ~isTestRunning')

\* C34: the time left is always one of 0..10 seconds; it does not go up
\* while a test runs; a tick of the countdown takes exactly 1 from it, never
\* below 0; it is 0 after every Stop of the mounted component; and once it
\* is 0 with the test still running the countdown effect that calls Stop is
\* pending, and that effect does call it.
C34_CountdownRunsDownToStop ==
    [][(component \in {"FingerTapTest", "EyeTrackingTest (timed)"})
          => C34_Step]_vars

\* C34: the countdown reached 0 while the test was running and Stop was
\* called for it.
C34_Witness ==
    /\ component \in {"FingerTapTest", "EyeTrackingTest (timed)"}
    /\ op = "stop:countdown"
    /\ ~isTestRunning
    /\ timeLeft = 0

(***************************************************************************)
(* Claims about repeated Stops.                                            *)
(***************************************************************************)
\* C35: once a session is stopped its results and its chart stay what the
\* first Stop made them until the next Start: a second run of
\* handleStopTest (the timeout after the countdown, or the countdown after
\* the timeout) sets the same values again, and no frame callback or tick
\* in between changes them.
C35_ResultsStayUntilStart ==
    [][(/\ component \in {"FingerTapTest", "EyeTrackingTest (timed)"}
        /\ ~isTestRunning
        /\ testResults # Null
        /\ op' # "start")
          => UNCHANGED <<testResults, chartData>>]_vars

\* C35: handleStopTest has run a second time for a session that was already
\* stopped and had its results.
C35_Witness ==
    /\ component \in {"FingerTapTest", "EyeTrackingTest (timed)"}
    /\ op = "stop:again"
    /\ ~isTestRunning
    /\ testResults # Null

(***************************************************************************)
(* Claims about the target.                                                *)
(***************************************************************************)
\* C36: the target moves only while a test runs: from the mount to Start,
\* and from Stop to the next Start, no step changes the target position (the
\* first move is that of the Start that begins the test).
C36_TargetMovesOnlyWhileRunning ==
    [][(~isTestRunning /\ op' # "start")
         => targetPosition' = targetPosition]_vars

\* C36: a test has moved the target and was stopped, and time has passed
\* since.
C36_Witness ==
    /\ component \in {"EyeTrackingTest", "EyeTrackingTest (timed)"}
    /\ ~isTestRunning
    /\ targetPosition # InitialTarget
    /\ op = "clock"

(***************************************************************************)
(* Claims about the tapped flag.                                           *)
(***************************************************************************)
\* The thumb-index distance of the frame just processed, or Null.
C37_Distance ==
    IF Len(arg'.landmarks) > 0
    THEN calculateFingerTapDistance(arg'.landmarks[1])
    ELSE Null

\* C37: in the proximity detection the tapped flag changes only on a frame
\* of a running test whose distance could be computed; it becomes true only
\* together with the append of a tap (distance below the threshold, flag
\* false in the callback) and false only with a distance at or above the
\* threshold; a frame with no hand, with a null distance or of a test that
\* is not running leaves it as it was.
C37_FlagFollowsDistance ==
    [][(pc = "proximity" /\ ret'.wasTapped # ret.wasTapped)
         => (/\ arg'.ready
             /\ arg'.cap.isTestRunning
             /\ C37_Distance # Null
             /\ ret'.wasTapped
                  => (/\ C37_Distance.value < 50
                      /\ ~arg'.cap.wasTapped
                      /\ ret'.tapTimestamps = Append(ret.tapTimestamps, arg'.time))
             /\ ~ret'.wasTapped => C37_Distance.value >= 50)]_vars

\* C37: the flag is set, and the frame just processed, of a running test,
\* showed no hand.
C37_Witness ==
    /\ pc = "proximity"
    /\ ret.wasTapped
    /\ arg # Null /\ arg.ready /\ arg.cap.isTestRunning
    /\ arg.landmarks = <<>>

(***************************************************************************)
(* Claims about analyzeTapData and the intervals.                          *)
(***************************************************************************)
\* The offsets (ms) the timestamps are shifted by.
C38_Offsets == {-400, 250, 1000}

\* The timestamps, each moved by c.
C38_Shifted(timestamps, c) == [i \in 1..Len(timestamps) |-> timestamps[i] + c]

\* C38: analyzeTapData depends on the intervals between the taps only: the
\* analysis of the timestamps all moved by the same offset is the analysis
\* of the timestamps, and averageTimeBetweenTaps times the number of
\* intervals is last - first, up to the rounding to a hundredth.
C38_DependsOnIntervalsOnly ==
    pc = "done"
        => /\ \A c \in C38_Offsets : analyzeTapData(C38_Shifted(arg, c)) = ret
           /\ Len(arg) >= 2
                => 2 * Abs(ret.averageTimeBetweenTaps * (Len(arg) - 1)
                             - 100 * (arg[Len(arg)] - arg[1]))
                     <= Len(arg) - 1

\* C38: three taps or more, not at the time origin and not evenly spaced,
\* have been analysed.
C38_Witness ==
    /\ pc = "done"
    /\ Len(arg) >= 3
    /\ arg[1] > 0
    /\ arg[Len(arg)] > arg[1]
    /\ arg[2] - arg[1] # arg[3] - arg[2]
    /\ ret.consistency > 0
====
